---- MODULE Spec2Model ----
(***************************************************************************)
(* A model of the storage core of rqlite: the pager with its shared page   *)
(* cache (src/src/pager.rs), the table B-tree scanner and the row cursor   *)
(* with its overflow reader (src/src/cursor.rs).                           *)
(*                                                                         *)
(* Pages are modelled at the level of their decoded fields (type byte,     *)
(* cells, rightmost pointer, next-overflow pointer, payload bytes); file   *)
(* offsets are byte offsets, with a small page size so that overflow       *)
(* payloads stay short (parse_header accepts every power of two).          *)
(***************************************************************************)
EXTENDS Integers, Sequences, FiniteSets, TLC

VARIABLES
    disk,        \* the file: page number -> the content of that page
    pages,       \* Pager.pages: cache id -> (page number -> CachedPage)
    pagesLock,   \* the RwLock around each cache: readers and writer
    input,       \* Pager.input: the Mutex<I> owner and the file position
    pc,          \* per thread: where it is inside Pager::load
    arg,         \* per thread: the (n, kind) of the load in progress
    buf,         \* per thread: the file offset its buffer was read at
    ret,         \* per thread: the outcome of its last finished load
    parseCount,  \* history: successful parses per page number
    handed,      \* history: the page objects handed out per page number
    failed,      \* history: page numbers a load of which returned an error
    tree,        \* the table B-tree in the file: depth, fan-out, rows per leaf
    fault,       \* the defect put into the file or the device, if any
    failNext,    \* page numbers whose next read from the file fails
    page_stack,  \* Scanner.page_stack, per scanner
    yielded,     \* history: the rows each scanner returned, in order
    visited,     \* history: the pages each scanner pushed, in order
    last,        \* history: how each scanner's latest next_record ended
    errored,     \* history: the scanner was returned an error
    ioHit,       \* history: the scanner was returned a read failure
    row,         \* the row in the file the cursor stands for
    cursor,      \* the Cursor: header, payload, next_overflow_page
    lastCall,    \* history: the latest field call, its result and its reads
    prevCall,    \* history: the field call before the latest one
    given,       \* the arguments a parsing function is called with
    returned     \* what the function returned for them

pagerVars == <<disk, pages, pagesLock, input, pc, arg, buf, ret,
               parseCount, handed, failed>>

scanVars == <<tree, fault, failNext, page_stack, yielded, visited, last,
              errored, ioHit>>

cursorVars == <<row, cursor, lastCall, prevCall>>

fnVars == <<given, returned>>

\* ------------------------------------------------------------------ bounds
MaxPage == 2
MaxDepth == 3
MaxFan == 2
MaxLeafRows == 2
MaxLeaves == 4
MaxIdleCalls == 1
MaxPad == 4
MaxFieldLen == 6
MaxPayloadPages == 10
MaxVarintBuf == 10
MaxReadOffset == 1
MaxHeaderFields == 3
MaxCells == 2
MaxChain == 3
MaxResultColumns == 3
MaxColumns == 2
MaxSelected == 2
MaxLaps == 2
MaxCalls == 1

\* --------------------------------------------------------------- constants
PageSize == 8
ReservedSize == 0
HEADER_SIZE == 100
PAGE_LEAF_TABLE_ID == 13
PAGE_INTERIOR_TABLE_ID == 5

Threads == {"t1", "t2"}
NoThread == "none"
PageNos == 1 .. MaxPage
Kinds == {"Page", "Overflow"}

UsablePageSize == PageSize - ReservedSize
FileLen == MaxPage * PageSize

\* ------------------------------------------------------------ file content
\* A page as it lies in the file.  type is the page-type byte, cells and
\* rightmost the B-tree content; next and payload are what the same bytes
\* give when read as an overflow page (bytes 0..3 and bytes 4..usable).
Filler(len) == [i \in 1 .. len |-> 0]

LeafRaw(cells) ==
    [type |-> PAGE_LEAF_TABLE_ID, cells |-> cells, rightmost |-> 0,
     next |-> PAGE_LEAF_TABLE_ID * 16777216,
     payload |-> Filler(UsablePageSize - 4)]

InteriorRaw(cells, rightmost) ==
    [type |-> PAGE_INTERIOR_TABLE_ID, cells |-> cells, rightmost |-> rightmost,
     next |-> PAGE_INTERIOR_TABLE_ID * 16777216,
     payload |-> Filler(UsablePageSize - 4)]

\* An overflow page: its first byte is the top byte of the next pointer, 0
\* for every page number below 2^24, so read as a B-tree page it has an
\* unknown page type.
OverflowRaw(next, payload) ==
    [type |-> next \div 16777216, cells |-> <<>>, rightmost |-> 0,
     next |-> next, payload |-> payload]

\* The file of the pager runs: B-tree pages and overflow pages alternate.
PagerDisk ==
    [n \in PageNos |->
        CASE n % 3 = 1 -> LeafRaw(<<>>)
          [] n % 3 = 2 -> OverflowRaw(0, Filler(UsablePageSize - 4))
          [] OTHER     -> InteriorRaw(<<>>, 1)]

\* ------------------------------------------------------------------ pager
\* Pager { input: Arc<Mutex<I>>, pages: Arc<RwLock<HashMap>>, header }: the
\* two Arcs are references (ids) into `input` and `pages`.
PagerNew == [input |-> 1, pages |-> 1]

\* impl Clone for Pager: both Arcs are cloned, so the clone refers to the
\* same mutex and the same cache.
PagerClone(p) == [input |-> p.input, pages |-> p.pages]

\* The pager each thread calls: the original and a clone of it.
pagerOf == [t \in Threads |-> IF t = "t1" THEN PagerNew ELSE PagerClone(PagerNew)]

CacheIds == {pagerOf[t].pages : t \in Threads}

NoEntry == [kind |-> "None", n |-> 0, gen |-> 0]

\* offset = n.saturating_sub(1) * page_size
PageOffsetOneBased(n) == n * PageSize

PageOffset(n) == (IF n >= 1 THEN n - 1 ELSE 0) * PageSize

\* parse_page_header: the page-type byte decides; anything but 0x0d and 0x05
\* is an error.  parse_overflow_page never fails.
ParseOk(kind, raw) ==
    \/ kind = "Overflow"
    \/ kind = "Page" /\ raw.type \in {PAGE_LEAF_TABLE_ID, PAGE_INTERIOR_TABLE_ID}

\* page.try_into(): a cached entry converts only to the kind it was stored as.
TryIntoNever(entry, kind) == FALSE

TryIntoOk(entry, kind) == entry.kind = kind

\* write_pages.insert(n, ptr.clone().into())
InsertEvicting(m, n, e) == [k \in DOMAIN m |-> IF k = n THEN e ELSE NoEntry]

Insert(m, n, e) == [m EXCEPT ![n] = e]

\* Lines 115-119 of load: both `?` return before the insert, so the cache
\* changes only when the read and the parse succeeded.
CacheAfterLoadPoisoning(m, n, ok, e) == Insert(m, n, e)

CacheAfterLoad(m, n, ok, e) == IF ok THEN Insert(m, n, e) ELSE m

\* Dropping the RwLock guard a thread holds (end of scope, any exit path).
DropCacheGuardKeepingShared(l, t) ==
    [readers |-> l.readers,
     writer  |-> IF l.writer = t THEN NoThread ELSE l.writer]

DropCacheGuard(l, t) ==
    [readers |-> l.readers \ {t},
     writer  |-> IF l.writer = t THEN NoThread ELSE l.writer]

\* Dropping the MutexGuard on the file when load_raw returns.
DropInputGuardLeak(i, t) == i

DropInputGuard(i, t) == [i EXCEPT !.owner = IF @ = t THEN NoThread ELSE @]

NoArg == [n |-> 0, kind |-> "None"]
NoRet == [tag |-> "none", site |-> "none"]

PagerInit ==
    /\ disk = PagerDisk
    /\ pages = [c \in CacheIds |-> [n \in PageNos |-> NoEntry]]
    /\ pagesLock = [c \in CacheIds |-> [readers |-> {}, writer |-> NoThread]]
    /\ input = [owner |-> NoThread, pos |-> 0]
    /\ pc = [t \in Threads |-> "idle"]
    /\ arg = [t \in Threads |-> NoArg]
    /\ buf = [t \in Threads |-> -1]
    /\ ret = [t \in Threads |-> NoRet]
    /\ parseCount = [n \in PageNos |-> 0]
    /\ handed = [n \in PageNos |-> {}]
    /\ failed = {}
    /\ tree = [depth |-> 0, fan |-> 0, rows |-> 0]
    /\ fault = [kind |-> "none", at |-> 0]
    /\ failNext = {}
    /\ page_stack = <<>>
    /\ yielded = <<>>
    /\ visited = <<>>
    /\ last = <<>>
    /\ errored = <<>>
    /\ ioHit = <<>>
    /\ row = <<>>
    /\ cursor = <<>>
    /\ lastCall = <<>>
    /\ prevCall = <<>>
    /\ given = <<>>
    /\ returned = <<>>

\* A return from load: the outcome is recorded with the place it returned
\* from, and the guards in scope are dropped.
Return(t, tag, site, entry) ==
    /\ pc' = [pc EXCEPT ![t] = "idle"]
    /\ arg' = [arg EXCEPT ![t] = NoArg]
    /\ buf' = [buf EXCEPT ![t] = -1]
    /\ ret' = [ret EXCEPT ![t] = [tag |-> tag, site |-> site]]
    /\ pagesLock' = [pagesLock EXCEPT ![pagerOf[t].pages] = DropCacheGuard(@, t)]
    /\ handed' = IF tag = "ok"
                 THEN [handed EXCEPT ![arg[t].n] = @ \cup {entry}]
                 ELSE handed
    /\ failed' = IF tag \in {"io", "parse"} THEN failed \cup {arg[t].n} ELSE failed

\* read_page(n) / read_overflow(n): the call enters load.
Call(t) ==
    /\ pc[t] = "idle"
    /\ \E n \in PageNos, kind \in Kinds :
          arg' = [arg EXCEPT ![t] = [n |-> n, kind |-> kind]]
    /\ pc' = [pc EXCEPT ![t] = "read_wait"]
    /\ ret' = [ret EXCEPT ![t] = NoRet]
    /\ UNCHANGED <<disk, pages, pagesLock, input, buf, parseCount, handed, failed>>

\* self.pages.read(): granted while no writer holds the lock.
LockRead(t) ==
    /\ pc[t] = "read_wait"
    /\ pagesLock[pagerOf[t].pages].writer = NoThread
    /\ pagesLock' = [pagesLock EXCEPT ![pagerOf[t].pages].readers = @ \cup {t}]
    /\ pc' = [pc EXCEPT ![t] = "read_held"]
    /\ UNCHANGED <<disk, pages, input, arg, buf, ret, parseCount, handed, failed>>

\* Lines 101-104: the lookup under the shared lock; a hit returns the
\* conversion of the cached entry, a miss drops the shared guard.
ReadCheck(t) ==
    LET c == pagerOf[t].pages
        entry == pages[c][arg[t].n]
    IN  /\ pc[t] = "read_held"
        /\ IF entry # NoEntry
           THEN Return(t, IF TryIntoOk(entry, arg[t].kind) THEN "ok" ELSE "kind",
                       "hit", entry)
           ELSE /\ pagesLock' = [pagesLock EXCEPT ![c] = DropCacheGuard(@, t)]
                /\ pc' = [pc EXCEPT ![t] = "write_wait"]
                /\ UNCHANGED <<arg, buf, ret, handed, failed>>
        /\ UNCHANGED <<disk, pages, input, parseCount>>

\* self.pages.write(): granted while nobody holds the lock.
LockWrite(t) ==
    LET c == pagerOf[t].pages
    IN  /\ pc[t] = "write_wait"
        /\ pagesLock[c].writer = NoThread
        /\ pagesLock[c].readers = {}
        /\ pagesLock' = [pagesLock EXCEPT ![c].writer = t]
        /\ pc' = [pc EXCEPT ![t] = "write_held"]
        /\ UNCHANGED <<disk, pages, input, arg, buf, ret, parseCount, handed, failed>>

\* Lines 111-113: the second lookup, under the exclusive lock.
RecheckNever(m, n) == NoEntry

Recheck(m, n) == m[n]

WriteCheck(t) ==
    LET c == pagerOf[t].pages
        entry == Recheck(pages[c], arg[t].n)
    IN  /\ pc[t] = "write_held"
        /\ IF entry # NoEntry
           THEN Return(t, IF TryIntoOk(entry, arg[t].kind) THEN "ok" ELSE "kind",
                       "recheck", entry)
           ELSE /\ pc' = [pc EXCEPT ![t] = "input_wait"]
                /\ UNCHANGED <<pagesLock, arg, buf, ret, handed, failed>>
        /\ UNCHANGED <<disk, pages, input, parseCount>>

\* load_raw: self.input.lock()
LockInput(t) ==
    /\ pc[t] = "input_wait"
    /\ input.owner = NoThread
    /\ input' = [input EXCEPT !.owner = t]
    /\ pc' = [pc EXCEPT ![t] = "seek"]
    /\ UNCHANGED <<disk, pages, pagesLock, arg, buf, ret, parseCount, handed, failed>>

\* load_raw: input_guard.seek(SeekFrom::Start(offset)), which may fail.
Seek(t) ==
    /\ pc[t] = "seek"
    /\ \E ok \in BOOLEAN :
          IF ok
          THEN /\ input' = [input EXCEPT !.pos = PageOffset(arg[t].n)]
               /\ pc' = [pc EXCEPT ![t] = "read"]
               /\ UNCHANGED <<pagesLock, arg, buf, ret, handed, failed>>
          ELSE /\ input' = DropInputGuard(input, t)
               /\ Return(t, "io", "seek", NoEntry)
    /\ UNCHANGED <<disk, pages, parseCount>>

\* load_raw: input_guard.read_exact(&mut buffer): page_size bytes from the
\* current position, an error at end of file or when the read fails.
ReadExact(t) ==
    /\ pc[t] = "read"
    /\ \E ok \in BOOLEAN :
          IF ok /\ input.pos + PageSize <= FileLen
          THEN /\ buf' = [buf EXCEPT ![t] = input.pos]
               /\ input' = DropInputGuard([input EXCEPT !.pos = @ + PageSize], t)
               /\ pc' = [pc EXCEPT ![t] = "parse"]
               /\ UNCHANGED <<pagesLock, arg, ret, handed, failed>>
          ELSE /\ input' = DropInputGuard(input, t)
               /\ Return(t, "io", "read", NoEntry)
    /\ UNCHANGED <<disk, pages, parseCount>>

\* Lines 116-121: parse the buffer, and on success insert and return it.
ParseInsert(t) ==
    LET c == pagerOf[t].pages
        n == arg[t].n
        raw == disk[(buf[t] \div PageSize) + 1]
        ok == ParseOk(arg[t].kind, raw)
        entry == [kind |-> arg[t].kind, n |-> n, gen |-> parseCount[n] + 1]
    IN  /\ pc[t] = "parse"
        /\ pages' = [pages EXCEPT ![c] = CacheAfterLoad(@, n, ok, entry)]
        /\ parseCount' = IF ok THEN [parseCount EXCEPT ![n] = @ + 1] ELSE parseCount
        /\ IF ok THEN Return(t, "ok", "load", entry)
                 ELSE Return(t, "parse", "parse", NoEntry)
        /\ UNCHANGED <<disk, input>>

PagerNext ==
    \E t \in Threads :
        \/ Call(t) /\ UNCHANGED <<scanVars, cursorVars, fnVars>>
        \/ LockRead(t) /\ UNCHANGED <<scanVars, cursorVars, fnVars>>
        \/ ReadCheck(t) /\ UNCHANGED <<scanVars, cursorVars, fnVars>>
        \/ LockWrite(t) /\ UNCHANGED <<scanVars, cursorVars, fnVars>>
        \/ WriteCheck(t) /\ UNCHANGED <<scanVars, cursorVars, fnVars>>
        \/ LockInput(t) /\ UNCHANGED <<scanVars, cursorVars, fnVars>>
        \/ Seek(t) /\ UNCHANGED <<scanVars, cursorVars, fnVars>>
        \/ ReadExact(t) /\ UNCHANGED <<scanVars, cursorVars, fnVars>>
        \/ ParseInsert(t) /\ UNCHANGED <<scanVars, cursorVars, fnVars>>

vars == <<pagerVars, scanVars, cursorVars, fnVars>>

SpecPager == PagerInit /\ [][PagerNext]_vars

\* ------------------------------------------------------------------ claims
CacheOf(t) == pages[pagerOf[t].pages]

\* C1: each page number is parsed successfully at most once per pager (its
\* clones included), and a thread that missed under the shared lock and finds
\* the entry under the exclusive lock returns from the cached entry without
\* touching the file, the parse count or the cache.
AtMostOnceParse == \A n \in PageNos : parseCount[n] <= 1

RecheckHitReturnsCached ==
    \A t \in Threads :
        (/\ pc[t] = "write_held"
         /\ CacheOf(t)[arg[t].n] # NoEntry
         /\ pc'[t] # pc[t])
        => /\ pc'[t] = "idle"
           /\ ret'[t].site = "recheck"
           /\ input' = input
           /\ parseCount' = parseCount
           /\ pages' = pages
           /\ (CacheOf(t)[arg[t].n].kind = arg[t].kind
               => /\ ret'[t].tag = "ok"
                  /\ handed'[arg[t].n] = handed[arg[t].n] \cup {CacheOf(t)[arg[t].n]})

C1_AtMostOnceParse == []AtMostOnceParse /\ [][RecheckHitReturnsCached]_vars

C1_Witness ==
    \E t \in Threads : ret[t] = [tag |-> "ok", site |-> "recheck"]

\* C2: every successful load of n hands out the one object cached for n, and
\* a cache entry, once present, is never removed or replaced.
HandlesAgree ==
    \A n \in PageNos : \A h \in handed[n] : \A t \in Threads : CacheOf(t)[n] = h

CacheOnlyGrows ==
    \A c \in CacheIds : \A n \in PageNos :
        pages[c][n] # NoEntry => pages'[c][n] = pages[c][n]

C2_StableHandles == []HandlesAgree /\ [][CacheOnlyGrows]_vars

C2_Witness ==
    \E n \in PageNos :
        /\ handed[n] # {}
        /\ \A m \in PageNos \ {n} : \A c \in CacheIds : pages[c][m] = NoEntry
        /\ ret["t1"] = [tag |-> "ok", site |-> "load"]
        /\ ret["t2"] = [tag |-> "ok", site |-> "hit"]

\* C3: a load that returns an error leaves the whole cache as it was, the
\* cache only ever holds pages that parsed, and a miss under the exclusive
\* lock always goes to the file (no error is remembered), also for a page
\* number whose earlier load failed.
ErrorKeepsCache ==
    \A t \in Threads :
        (pc[t] # "idle" /\ pc'[t] = "idle" /\ ret'[t].tag # "ok") => pages' = pages

MissGoesToFile ==
    \A t \in Threads :
        (/\ pc[t] = "write_held"
         /\ CacheOf(t)[arg[t].n] = NoEntry
         /\ pc'[t] # pc[t])
        => pc'[t] = "input_wait"

OnlyParsedPagesCached ==
    \A c \in CacheIds : \A n \in PageNos :
        pages[c][n] # NoEntry
        => /\ ParseOk(pages[c][n].kind, disk[n])
           /\ pages[c][n].n = n

C3_ErrorsNotCached ==
    []OnlyParsedPagesCached /\ [][ErrorKeepsCache /\ MissGoesToFile]_vars

C3_Witness ==
    \E t, u \in Threads :
        /\ ret[t].tag = "parse"
        /\ \E m \in PageNos : CacheOf(t)[m] # NoEntry
        /\ pc[u] \in {"seek", "read", "parse"}
        /\ arg[u].n \in failed

\* C4: between a thread's seek and its read_exact nobody else moves the file
\* position, so the buffer parsed for page n holds the bytes at offset
\* (n - 1) * page_size.
ReadsAtPageOffset ==
    \A t \in Threads :
        /\ pc[t] = "read"
           => input.owner = t /\ input.pos = (arg[t].n - 1) * PageSize
        /\ pc[t] = "parse" => buf[t] = (arg[t].n - 1) * PageSize

SeekReadUninterrupted ==
    \A t \in Threads : (pc[t] = "read" /\ pc'[t] = "read") => input' = input

C4_SeekReadAtomic == []ReadsAtPageOffset /\ [][SeekReadUninterrupted]_vars

C4_Witness ==
    /\ pc["t1"] = "parse" /\ arg["t1"].n = 2
    /\ \E n \in PageNos : n # 2 /\ parseCount[n] = 1

\* C5: a thread that is not inside load holds neither the cache lock (shared
\* or exclusive) nor the file mutex, whatever way its last call returned.
C5_LocksReleased ==
    \A t \in Threads :
        pc[t] = "idle"
        => /\ \A c \in CacheIds : t \notin pagesLock[c].readers /\ pagesLock[c].writer # t
           /\ input.owner # t

C5_Witness ==
    /\ \A t \in Threads : pc[t] = "idle"
    /\ ret["t1"] = [tag |-> "io", site |-> "read"]
    /\ ret["t2"].tag \in {"kind", "parse"}

\* ------------------------------------------------------- sequence helpers
IsPrefix(a, b) == Len(a) <= Len(b) /\ SubSeq(b, 1, Len(a)) = a

Range(q) == {q[i] : i \in DOMAIN q}

RECURSIVE Pow(_, _)
Pow(b, k) == IF k = 0 THEN 1 ELSE b * Pow(b, k - 1)

RECURSIVE Concat(_)
Concat(qs) == IF qs = <<>> THEN <<>> ELSE Head(qs) \o Concat(Tail(qs))

\* --------------------------------------------------------- record header
\* An i64 as its eight bytes, most significant first (two's complement).
Zero64 == <<0, 0, 0, 0, 0, 0, 0, 0>>

\* (result << 7) | low7: the bits shifted out at the top are lost.
Shl7Or(w, low7) ==
    [i \in 1 .. 8 |->
        ((w[i] * 128) % 256) + (IF i < 8 THEN w[i + 1] \div 2 ELSE low7)]

\* (result << 8) | current_byte
Shl8Or(w, byte) == Tail(w) \o <<byte>>

\* The number an i64 stands for when it lies within 32 bits; a number beyond
\* them is given as the nearest 32-bit number.
AsInt(w) ==
    LET low == w[6] * 65536 + w[7] * 256 + w[8]
    IN  IF w[1] = 0 /\ w[2] = 0 /\ w[3] = 0 /\ w[4] = 0 /\ w[5] < 128
        THEN w[5] * 16777216 + low
        ELSE IF w[1] = 255 /\ w[2] = 255 /\ w[3] = 255 /\ w[4] = 255 /\ w[5] >= 128
        THEN (w[5] - 256) * 16777216 + low
        ELSE IF w[1] < 128 THEN 2147483647 ELSE -2147483647

\* The ninth byte of a varint: if size == 8 { result = (result << 8) | byte }
NinthByteLow7(w, current_byte) == Shl7Or(w, current_byte % 128)

NinthByte(w, current_byte) == Shl8Or(w, current_byte)

\* read_varint_at(buffer, offset): up to eight bytes give their low 7 bits,
\* a ninth gives all 8; it stops after the first byte without the high bit.
\* An index past the end of the buffer panics.
RECURSIVE VarintLoop(_, _, _, _)
VarintLoop(buffer, offset, size, result) ==
    IF size >= 9 THEN [panic |-> FALSE, size |-> size, word |-> result]
    ELSE IF offset >= Len(buffer) THEN [panic |-> TRUE, size |-> size, word |-> result]
    ELSE LET current_byte == buffer[offset + 1]
             r == IF size = 8 THEN NinthByte(result, current_byte)
                  ELSE Shl7Or(result, current_byte % 128)
         IN  IF current_byte < 128
             THEN [panic |-> FALSE, size |-> size + 1, word |-> r]
             ELSE VarintLoop(buffer, offset + 1, size + 1, r)

\* (size, result): word is the i64 returned, value the number it stands for.
read_varint_at(buffer, offset) ==
    LET v == VarintLoop(buffer, offset, 0, Zero64)
    IN  [panic |-> v.panic, size |-> v.size, word |-> v.word, value |-> AsInt(v.word)]

\* The match of parse_record_header: the field type and its size for a
\* type code; codes 10 and 11 match no arm.
FieldTypeOf(discriminant) ==
    CASE discriminant = 0 -> [ok |-> TRUE, t |-> "Null", len |-> 0, size |-> 0]
      [] discriminant = 1 -> [ok |-> TRUE, t |-> "I8", len |-> 0, size |-> 1]
      [] discriminant = 2 -> [ok |-> TRUE, t |-> "I16", len |-> 0, size |-> 2]
      [] discriminant = 3 -> [ok |-> TRUE, t |-> "I24", len |-> 0, size |-> 3]
      [] discriminant = 4 -> [ok |-> TRUE, t |-> "I32", len |-> 0, size |-> 4]
      [] discriminant = 5 -> [ok |-> TRUE, t |-> "I48", len |-> 0, size |-> 6]
      [] discriminant = 6 -> [ok |-> TRUE, t |-> "I64", len |-> 0, size |-> 8]
      [] discriminant = 7 -> [ok |-> TRUE, t |-> "Float", len |-> 0, size |-> 8]
      [] discriminant = 8 -> [ok |-> TRUE, t |-> "Zero", len |-> 0, size |-> 0]
      [] discriminant = 9 -> [ok |-> TRUE, t |-> "One", len |-> 0, size |-> 0]
      [] discriminant >= 12 /\ discriminant % 2 = 0 ->
            [ok |-> TRUE, t |-> "Blob", len |-> (discriminant - 12) \div 2,
             size |-> (discriminant - 12) \div 2]
      [] discriminant >= 13 /\ discriminant % 2 = 1 ->
            [ok |-> TRUE, t |-> "String", len |-> (discriminant - 13) \div 2,
             size |-> (discriminant - 13) \div 2]
      [] OTHER -> [ok |-> FALSE, t |-> "Unsupported", len |-> 0, size |-> 0]

\* The while loop of parse_record_header over the type-code bytes.
RECURSIVE HeaderLoopSkipping(_, _, _)
HeaderLoopSkipping(buffer, current_offset, fields) ==
    IF buffer = <<>> THEN [tag |-> "ok", fields |-> fields]
    ELSE LET v == read_varint_at(buffer, 0)
             ft == FieldTypeOf(v.value)
             rest == SubSeq(buffer, v.size + 1, Len(buffer))
         IN  IF v.panic THEN [tag |-> "panic", fields |-> fields]
             ELSE IF ~ft.ok THEN HeaderLoopSkipping(rest, current_offset, fields)
             ELSE HeaderLoopSkipping(rest, current_offset + ft.size,
                                     Append(fields, [offset |-> current_offset,
                                                     field_type |-> ft.t,
                                                     len |-> ft.len]))

RECURSIVE HeaderLoop(_, _, _)
HeaderLoop(buffer, current_offset, fields) ==
    IF buffer = <<>> THEN [tag |-> "ok", fields |-> fields]
    ELSE LET v == read_varint_at(buffer, 0)
             ft == FieldTypeOf(v.value)
         IN  IF v.panic THEN [tag |-> "panic", fields |-> fields]
             ELSE IF ~ft.ok THEN [tag |-> "err", fields |-> fields]
             ELSE HeaderLoop(SubSeq(buffer, v.size + 1, Len(buffer)),
                             current_offset + ft.size,
                             Append(fields, [offset |-> current_offset,
                                             field_type |-> ft.t,
                                             len |-> ft.len]))

\* parse_record_header(buffer): the header_length varint, then the type codes
\* in buffer[varint_size..header_length] (a slice out of range panics).
ParseRecordHeaderFromZero(buffer) ==
    LET v == read_varint_at(buffer, 0)
    IN  IF v.panic \/ v.value > Len(buffer) \/ v.size > v.value
        THEN [tag |-> "panic", fields |-> <<>>]
        ELSE HeaderLoop(SubSeq(buffer, v.size + 1, v.value), 0, <<>>)

parse_record_header(buffer) ==
    LET v == read_varint_at(buffer, 0)
    IN  IF v.panic \/ v.value > Len(buffer) \/ v.size > v.value
        THEN [tag |-> "panic", fields |-> <<>>]
        ELSE HeaderLoop(SubSeq(buffer, v.size + 1, v.value), v.value, <<>>)

\* ------------------------------------------------------------ table trees
\* A complete table B-tree: every interior page has `fan` cells and a
\* rightmost child, every leaf `rows` cells; pages are numbered level by
\* level from the root (page 1), ROWIDs ascend from the leftmost leaf.
Children(sh) == sh.fan + 1

RECURSIVE NumInterior(_, _)
NumInterior(sh, levels) ==
    IF levels <= 0 THEN 0 ELSE Pow(Children(sh), levels - 1) + NumInterior(sh, levels - 1)

Interiors(sh) == NumInterior(sh, sh.depth - 1)
NumLeaves(sh) == Pow(Children(sh), sh.depth - 1)
NumPages(sh) == Interiors(sh) + NumLeaves(sh)
NumRows(sh) == NumLeaves(sh) * sh.rows

\* A row: a record of three columns, an 8-bit integer holding the ROWID, a
\* text of one letter and an 8-bit integer holding 100 + ROWID.  A record
\* header with the reserved type code 10 stands for a row that cannot be
\* decoded.
RowPayload(rowid) == <<4, 1, 15, 1, rowid, 96 + rowid, 100 + rowid>>
BadRowPayload(rowid) == <<4, 10, 15, 1, rowid, 96 + rowid, 100 + rowid>>

NoCell == [tag |-> "None", left_child_page |-> 0, payload |-> <<>>, first_overflow |-> 0]

LeafCell(payload, first_overflow) ==
    [tag |-> "TableLeaf", left_child_page |-> 0, payload |-> payload,
     first_overflow |-> first_overflow]

InteriorCell(left_child_page) ==
    [tag |-> "TableInterior", left_child_page |-> left_child_page,
     payload |-> <<>>, first_overflow |-> 0]

TreePage(sh, flt, n) ==
    LET i == n - 1
        c == Children(sh)
    IN  IF flt.kind = "badPage" /\ flt.at = n
        THEN OverflowRaw(0, Filler(UsablePageSize - 4))
        ELSE IF i < Interiors(sh)
        THEN InteriorRaw([j \in 1 .. sh.fan |-> InteriorCell(i * c + j + 1)],
                         i * c + c + 1)
        ELSE LET first == (i - Interiors(sh)) * sh.rows
             IN  LeafRaw([k \in 1 .. sh.rows |->
                            LeafCell(IF flt.kind = "badRow" /\ flt.at = first + k
                                     THEN BadRowPayload(first + k)
                                     ELSE RowPayload(first + k), 0)])

TreeDisk(sh, flt) == [n \in 1 .. NumPages(sh) |-> TreePage(sh, flt, n)]

Shapes ==
    {sh \in [depth : 1 .. MaxDepth, fan : 0 .. MaxFan, rows : 0 .. MaxLeafRows] :
        /\ NumLeaves(sh) <= MaxLeaves
        /\ sh.depth = 1 => sh.fan = 0}

Faults(sh) ==
    {[kind |-> "none", at |-> 0]}
    \cup [kind : {"badPage", "flaky"}, at : 1 .. NumPages(sh)]
    \cup [kind : {"badRow"}, at : 1 .. NumRows(sh)]

\* ---------------------------------------------------------------- scanner
Scanners == {"s1", "s2"}

\* Scanner::new(page, pager): every scanner holds a clone of the one pager.
initial_page == 1
scannerPager == [s \in Scanners |-> PagerClone(PagerNew)]

\* A whole Pager::load, which runs under the exclusive cache lock from the
\* re-check to the insert: a hit converts the cached entry, a miss reads the
\* page from the file (the read fails for a page in failNext or past the end
\* of the file), parses it and caches it if it parsed.
Load(cache, fn, n, kind) ==
    LET entry == IF n \in DOMAIN cache THEN cache[n] ELSE NoEntry
    IN  IF entry # NoEntry
        THEN [tag |-> IF TryIntoOk(entry, kind) THEN "ok" ELSE "kind",
              entry |-> entry, cache |-> cache, failNext |-> fn]
        ELSE IF n \in fn \/ PageOffset(n) + PageSize > Len(disk) * PageSize
        THEN [tag |-> "io", entry |-> NoEntry, cache |-> cache, failNext |-> fn \ {n}]
        ELSE LET raw == disk[(PageOffset(n) \div PageSize) + 1]
                 ok == ParseOk(kind, raw)
                 e == [kind |-> kind, n |-> n, gen |-> 1]
             IN  [tag |-> IF ok THEN "ok" ELSE "parse",
                  entry |-> IF ok THEN e ELSE NoEntry,
                  cache |-> CacheAfterLoad(cache, n, ok, e), failNext |-> fn]

\* parse_page: the page::Page behind a handle of kind Page.
PageOf(h) ==
    LET raw == disk[h.n]
    IN  [page_type |-> IF raw.type = PAGE_LEAF_TABLE_ID THEN "TableLeaf"
                       ELSE "TableInterior",
         cells |-> raw.cells,
         rightmost_pointer |-> raw.rightmost]

\* PositionedPage { page, cell: 0 }
PushedAtOne(h) == [page |-> h, cell |-> 1]

Pushed(h) == [page |-> h, cell |-> 0]

\* PositionedPage::next_page: fires on an interior page once, when the cell
\* index equals the number of cells.
NextPageFiresFirst(pp) ==
    PageOf(pp.page).page_type = "TableInterior" /\ pp.cell = 0

NextPageFires(pp) ==
    /\ PageOf(pp.page).page_type = "TableInterior"
    /\ pp.cell = Len(PageOf(pp.page).cells)

\* PositionedPage::next_cell: self.page.get(self.cell)
CellAt(pp) ==
    IF pp.cell < Len(PageOf(pp.page).cells)
    THEN PageOf(pp.page).cells[pp.cell + 1]
    ELSE NoCell

\* Scanner::next_elem on a non-empty stack: the element found and the top of
\* the stack after it, whose cell index has moved on in every case.
NextElem(pp) ==
    LET moved == [pp EXCEPT !.cell = @ + 1]
        cell == CellAt(pp)
        hdr == parse_record_header(cell.payload)
    IN  IF NextPageFires(pp)
        THEN [top |-> moved, elem |-> "Page",
              page |-> PageOf(pp.page).rightmost_pointer, cursor |-> <<>>]
        ELSE IF cell.tag = "None"
        THEN [top |-> moved, elem |-> "None", page |-> 0, cursor |-> <<>>]
        ELSE IF cell.tag = "TableInterior"
        THEN [top |-> moved, elem |-> "Page", page |-> cell.left_child_page,
              cursor |-> <<>>]
        ELSE IF hdr.tag = "panic"
        THEN [top |-> moved, elem |-> "Panic", page |-> 0, cursor |-> <<>>]
        ELSE IF hdr.tag # "ok"
        THEN [top |-> moved, elem |-> "Err", page |-> 0, cursor |-> <<>>]
        ELSE [top |-> moved, elem |-> "Cursor", page |-> 0,
              cursor |-> [header |-> hdr.fields, payload |-> cell.payload,
                          next_overflow_page |-> cell.first_overflow]]

\* The row a cursor stands for: its first field, an 8-bit integer.
RowOf(c) == c.payload[c.header[1].offset + 1]

ReplaceTop(stk, pp) == [stk EXCEPT ![Len(stk)] = pp]

\* self.page_stack.pop()
PopNothing(stk) == stk

Pop(stk) == SubSeq(stk, 1, Len(stk) - 1)

\* Ok(None) => return Ok(None): the stack stays as next_elem left it.
ClearedAtEnd(stk) == <<>>

LeftAtEnd(stk) == stk

ScanInit ==
    /\ tree \in Shapes
    /\ fault \in Faults(tree)
    /\ disk = TreeDisk(tree, fault)
    /\ failNext = IF fault.kind = "flaky" THEN {fault.at} ELSE {}
    /\ pages = [c \in CacheIds |-> [n \in 1 .. NumPages(tree) |-> NoEntry]]
    /\ pagesLock = [c \in CacheIds |-> [readers |-> {}, writer |-> NoThread]]
    /\ input = [owner |-> NoThread, pos |-> 0]
    /\ pc = [t \in Threads |-> "idle"]
    /\ arg = [t \in Threads |-> NoArg]
    /\ buf = [t \in Threads |-> -1]
    /\ ret = [t \in Threads |-> NoRet]
    /\ parseCount = [n \in PageNos |-> 0]
    /\ handed = [n \in PageNos |-> {}]
    /\ failed = {}
    /\ page_stack = [s \in Scanners |-> <<>>]
    /\ yielded = [s \in Scanners |-> <<>>]
    /\ visited = [s \in Scanners |-> <<>>]
    /\ last = [s \in Scanners |-> "new"]
    /\ errored = [s \in Scanners |-> FALSE]
    /\ ioHit = [s \in Scanners |-> FALSE]
    /\ row = <<>>
    /\ cursor = <<>>
    /\ lastCall = <<>>
    /\ prevCall = <<>>
    /\ given = <<>>
    /\ returned = <<>>

\* next_record returns Err(e): from read_page or from parse_record_header.
ScanError(s, tag) ==
    /\ last' = [last EXCEPT ![s] = "err"]
    /\ errored' = [errored EXCEPT ![s] = TRUE]
    /\ ioHit' = [ioHit EXCEPT ![s] = @ \/ tag = "io"]

\* Scanner::current_page with an empty stack: read the initial page and push
\* it, or return the error.
LoadRoot(s) ==
    LET c == scannerPager[s].pages
        r == Load(pages[c], failNext, initial_page, "Page")
    IN  /\ page_stack[s] = <<>>
        /\ pages' = [pages EXCEPT ![c] = r.cache]
        /\ failNext' = r.failNext
        /\ IF r.tag = "ok"
           THEN /\ page_stack' = [page_stack EXCEPT ![s] = <<Pushed(r.entry)>>]
                /\ visited' = [visited EXCEPT ![s] = Append(@, initial_page)]
                /\ UNCHANGED <<last, errored, ioHit>>
           ELSE /\ ScanError(s, r.tag)
                /\ UNCHANGED <<page_stack, visited>>
        /\ UNCHANGED <<yielded, tree, fault, disk, pagesLock, input, pc, arg, buf,
                       ret, parseCount, handed, failed>>

\* One turn of the loop of next_record on a non-empty stack: next_elem, then
\* the match on what it returned.
Advance(s) ==
    LET c == scannerPager[s].pages
        stk == page_stack[s]
        top == stk[Len(stk)]
        e == NextElem(top)
        stepped == ReplaceTop(stk, e.top)
        r == Load(pages[c], failNext, e.page, "Page")
    IN  /\ stk # <<>>
        /\ top.cell < Len(PageOf(top.page).cells) + 2 + MaxIdleCalls
        /\ CASE e.elem = "Cursor" ->
                  /\ page_stack' = [page_stack EXCEPT ![s] = stepped]
                  /\ yielded' = [yielded EXCEPT ![s] = Append(@, RowOf(e.cursor))]
                  /\ last' = [last EXCEPT ![s] = "cursor"]
                  /\ UNCHANGED <<pages, failNext, visited, errored, ioHit>>
             [] e.elem = "Page" ->
                  /\ pages' = [pages EXCEPT ![c] = r.cache]
                  /\ failNext' = r.failNext
                  /\ IF r.tag = "ok"
                     THEN /\ page_stack' = [page_stack EXCEPT
                                               ![s] = Append(stepped, Pushed(r.entry))]
                          /\ visited' = [visited EXCEPT ![s] = Append(@, e.page)]
                          /\ UNCHANGED <<last, errored, ioHit>>
                     ELSE /\ page_stack' = [page_stack EXCEPT ![s] = stepped]
                          /\ ScanError(s, r.tag)
                          /\ UNCHANGED visited
                  /\ UNCHANGED yielded
             [] e.elem = "None" /\ Len(stk) > 1 ->
                  /\ page_stack' = [page_stack EXCEPT ![s] = Pop(stepped)]
                  /\ UNCHANGED <<pages, failNext, yielded, visited, last, errored, ioHit>>
             [] e.elem = "None" /\ Len(stk) <= 1 ->
                  /\ page_stack' = [page_stack EXCEPT ![s] = LeftAtEnd(stepped)]
                  /\ last' = [last EXCEPT ![s] = "end"]
                  /\ UNCHANGED <<pages, failNext, yielded, visited, errored, ioHit>>
             [] e.elem = "Err" ->
                  /\ page_stack' = [page_stack EXCEPT ![s] = stepped]
                  /\ ScanError(s, "record")
                  /\ UNCHANGED <<pages, failNext, yielded, visited>>
        /\ UNCHANGED <<tree, fault, disk, pagesLock, input, pc, arg, buf,
                       ret, parseCount, handed, failed>>

ScanNext ==
    \E s \in Scanners :
        \/ LoadRoot(s) /\ UNCHANGED <<cursorVars, fnVars>>
        \/ Advance(s) /\ UNCHANGED <<cursorVars, fnVars>>

SpecScan == ScanInit /\ [][ScanNext]_vars

\* ---------------------------------------------------- claims on the scanner
\* The rows below page n of file d, left to right, leaving out pages that do
\* not parse and rows whose record header does not parse.
RECURSIVE RowsUnder(_, _)
RowsUnder(d, n) ==
    LET raw == d[n]
        Decodes(cell) == parse_record_header(cell.payload).tag = "ok"
        good == SelectSeq(raw.cells, Decodes)
    IN  IF raw.type = PAGE_LEAF_TABLE_ID
        THEN [k \in 1 .. Len(good) |-> good[k].payload[good[k].payload[1] + 1]]
        ELSE IF raw.type = PAGE_INTERIOR_TABLE_ID
        THEN Concat([j \in 1 .. Len(raw.cells) |->
                        RowsUnder(d, raw.cells[j].left_child_page)])
             \o RowsUnder(d, raw.rightmost)
        ELSE <<>>

\* The pages below and including page n of file d: a page, then the subtrees
\* of its cells' left children in cell order, then that of its rightmost child.
RECURSIVE PreOrder(_, _)
PreOrder(d, n) ==
    LET raw == d[n]
    IN  IF raw.type = PAGE_INTERIOR_TABLE_ID
        THEN <<n>> \o Concat([j \in 1 .. Len(raw.cells) |->
                                 PreOrder(d, raw.cells[j].left_child_page)])
                   \o PreOrder(d, raw.rightmost)
        ELSE <<n>>

NoFault == [kind |-> "none", at |-> 0]

\* The rows of the table, and the rows a scanner running alone is returned
\* from the file as it is.
TableRows == RowsUnder(TreeDisk(tree, NoFault), initial_page)
SoloRows == RowsUnder(disk, initial_page)

StrictlyAscending(q) == \A i, j \in DOMAIN q : i < j => q[i] < q[j]

\* C6: the rows a scanner returns are in ascending ROWID order, and as long
\* as no call failed it enters the pages in pre-order: for every interior
\* page its cells' left children in cell order, then its rightmost child.
C6_AscendingOrder ==
    \A s \in Scanners :
        /\ StrictlyAscending(yielded[s])
        /\ ~errored[s]
           => /\ IsPrefix(visited[s], PreOrder(TreeDisk(tree, NoFault), initial_page))
              /\ IsPrefix(yielded[s], TableRows)

C6_Witness ==
    /\ tree = [depth |-> 3, fan |-> 1, rows |-> 2]
    /\ last["s1"] = "end"
    /\ ~errored["s1"]
    /\ Len(yielded["s1"]) = 8
    /\ Len(visited["s1"]) = 7

\* C7: no row is returned twice, and when next_record returns None without
\* any call having failed, the rows returned are exactly the leaf cells of
\* the tree, each once.
C7_EachCellOnce ==
    \A s \in Scanners :
        /\ Cardinality(Range(yielded[s])) = Len(yielded[s])
        /\ (last[s] = "end" /\ ~errored[s])
           => /\ Range(yielded[s]) = 1 .. NumRows(tree)
              /\ Len(yielded[s]) = NumRows(tree)

C7_Witness ==
    /\ tree = [depth |-> 3, fan |-> 0, rows |-> 2]
    /\ last["s1"] = "end"
    /\ ~errored["s1"]
    /\ Len(yielded["s1"]) = 2

\* C8: a scanner that shares the pager with another one is returned the rows
\* it would be returned alone (unless a read failed under it) and no error
\* that the file does not hold for it, and a step of one scanner changes no
\* other scanner's stack or rows.
SoloStream ==
    \A s \in Scanners :
        ~ioHit[s]
        => /\ IsPrefix(yielded[s], SoloRows)
           /\ last[s] = "end" => yielded[s] = SoloRows
           /\ fault.kind \in {"none", "flaky"} => ~errored[s]

ScannersIndependent ==
    \A s, u \in Scanners :
        (s # u /\ page_stack'[s] # page_stack[s])
        => /\ page_stack'[u] = page_stack[u]
           /\ yielded'[u] = yielded[u]
           /\ visited'[u] = visited[u]
           /\ last'[u] = last[u]

C8_IndependentStreams == []SoloStream /\ [][ScannersIndependent]_vars

C8_Witness ==
    /\ tree = [depth |-> 3, fan |-> 1, rows |-> 2]
    /\ fault = NoFault
    /\ last["s1"] = "end"
    /\ yielded["s1"] = SoloRows
    /\ last["s2"] = "cursor"
    /\ Len(yielded["s2"]) = 3

\* C9: whatever calls failed before, the rows a scanner has been returned
\* are a gap-free prefix of the table's rows in order.
C9_GapFreePrefix == \A s \in Scanners : IsPrefix(yielded[s], TableRows)


\* ------------------------------------------------------------- row cursor
\* The rows of the cursor runs: a record of two columns, a blob of `pad`
\* bytes and a column of serial type `code`, of which the first `local`
\* bytes lie in the leaf cell and the rest on a chain of overflow pages.
BlobCode(len) == 12 + 2 * len
StringCode(len) == 13 + 2 * len

FieldCodes ==
    (0 .. 9) \cup {BlobCode(l) : l \in 0 .. MaxFieldLen}
             \cup {StringCode(l) : l \in 0 .. MaxFieldLen}

RowHeader(r) == <<3, BlobCode(r.pad), r.code>>

\* Column bytes: letters in the blob, bytes with the high bit set in the
\* numbers, and "abcd" followed by the two bytes of a UTF-8 e-acute in the
\* text, so that a text of five bytes is cut inside a character.
ColumnBytes(r) ==
    [i \in 1 .. FieldTypeOf(r.code).size |->
        IF FieldTypeOf(r.code).t # "String" THEN 256 - i
        ELSE IF i = 5 THEN 195 ELSE IF i = 6 THEN 169 ELSE 96 + i]

RowBytes(r) == RowHeader(r) \o [i \in 1 .. r.pad |-> 64 + i] \o ColumnBytes(r)

Rows ==
    {r \in [pad : 0 .. MaxPad, code : FieldCodes, local : 3 .. (MaxPad + 11)] :
        r.local <= Len(RowBytes(r))}

Spill(r) == SubSeq(RowBytes(r), r.local + 1, Len(RowBytes(r)))

\* parse_overflow_page: payload is buffer[4..], of a buffer of usable size.
OverflowSpace == UsablePageSize - 4

ChainLen(r) == (Len(Spill(r)) + OverflowSpace - 1) \div OverflowSpace

\* The chain is whole, or its last page is missing (short), or the first
\* read of one of its pages fails (flaky).
CursorFaults(r) ==
    {[kind |-> "none", at |-> 0]}
    \cup [kind : {"flaky"}, at : 2 .. (1 + ChainLen(r))]
    \cup [kind : {"short"}, at : (1 + ChainLen(r)) .. (IF ChainLen(r) > 0 THEN 1 + ChainLen(r) ELSE 0)]

StoredChain(r, flt) == IF flt.kind = "short" THEN ChainLen(r) - 1 ELSE ChainLen(r)

OverflowPageOf(r, flt, j) ==
    LET from == (j - 1) * OverflowSpace
        have == IF Len(Spill(r)) - from < OverflowSpace THEN Len(Spill(r)) - from
                ELSE OverflowSpace
    IN  OverflowRaw(IF j < StoredChain(r, flt) THEN j + 2 ELSE 0,
                    SubSeq(Spill(r), from + 1, from + have)
                        \o Filler(OverflowSpace - have))

CursorDisk(r, flt) ==
    [n \in 1 .. (1 + StoredChain(r, flt)) |->
        IF n = 1
        THEN LeafRaw(<<LeafCell(SubSeq(RowBytes(r), 1, r.local),
                                IF ChainLen(r) > 0 THEN 2 ELSE 0)>>)
        ELSE OverflowPageOf(r, flt, n - 1)]


\* RecordField::end_offset: offset + size, with 5 for a 48-bit integer.
end_offset(record_field) ==
    record_field.offset
    + (CASE record_field.field_type = "I8" -> 1
         [] record_field.field_type = "I16" -> 2
         [] record_field.field_type = "I24" -> 3
         [] record_field.field_type = "I32" -> 4
         [] record_field.field_type = "I48" -> 5
         [] record_field.field_type \in {"I64", "Float"} -> 8
         [] record_field.field_type \in {"String", "Blob"} -> record_field.len
         [] OTHER -> 0)

saturating_sub(a, b) == IF a > b THEN a - b ELSE 0

\* The loop condition of OverflowScanner::read: buffer.len() < size.
KeepReadingAtLeastOnce(len, size) == len < size \/ len = 0

KeepReading(len, size) == len < size

\* parse_overflow_page(buffer): next is the big-endian word at 0 (0 is None),
\* payload is buffer[4..].
ParseOverflowPageWhole(raw) ==
    [next |-> raw.next,
     payload |-> <<raw.next \div 16777216, (raw.next \div 65536) % 256,
                   (raw.next \div 256) % 256, raw.next % 256>> \o raw.payload]

parse_overflow_page(raw) == [next |-> raw.next, payload |-> raw.payload]

\* OverflowScanner::read(first_page, size): pages are read and appended
\* whole while the buffer is short and a next page is known; a failed read
\* returns the error and drops the buffer.  reads counts the read_overflow
\* calls made.
RECURSIVE OverflowReadStoppingAtFailure(_, _, _, _, _, _)
OverflowReadStoppingAtFailure(cache, fn, next_page, buffer, size, reads) ==
    IF KeepReading(Len(buffer), size) /\ next_page # 0
    THEN LET r == Load(cache, fn, next_page, "Overflow")
         IN  IF r.tag # "ok"
             THEN [tag |-> "ok", next |-> next_page, buffer |-> buffer,
                   cache |-> r.cache, failNext |-> r.failNext, reads |-> reads + 1]
             ELSE LET overflow == parse_overflow_page(disk[r.entry.n])
                  IN  OverflowReadStoppingAtFailure(r.cache, r.failNext, overflow.next,
                                                    buffer \o overflow.payload, size,
                                                    reads + 1)
    ELSE [tag |-> "ok", next |-> next_page, buffer |-> buffer,
          cache |-> cache, failNext |-> fn, reads |-> reads]

RECURSIVE OverflowRead(_, _, _, _, _, _)
OverflowRead(cache, fn, next_page, buffer, size, reads) ==
    IF KeepReading(Len(buffer), size) /\ next_page # 0
    THEN LET r == Load(cache, fn, next_page, "Overflow")
         IN  IF r.tag # "ok"
             THEN [tag |-> r.tag, next |-> next_page, buffer |-> <<>>,
                   cache |-> r.cache, failNext |-> r.failNext, reads |-> reads + 1]
             ELSE LET overflow == parse_overflow_page(disk[r.entry.n])
                  IN  OverflowRead(r.cache, r.failNext, overflow.next,
                                   buffer \o overflow.payload, size, reads + 1)
    ELSE [tag |-> "ok", next |-> next_page, buffer |-> buffer,
          cache |-> cache, failNext |-> fn, reads |-> reads]

\* std::str::from_utf8 accepts well-formed UTF-8 only.
RECURSIVE Utf8Ok(_)
Utf8Ok(bytes) ==
    IF bytes = <<>> THEN TRUE
    ELSE LET b == bytes[1]
             width == CASE b < 128 -> 1
                        [] b >= 194 /\ b <= 223 -> 2
                        [] b >= 224 /\ b <= 239 -> 3
                        [] b >= 240 /\ b <= 244 -> 4
                        [] OTHER -> 0
         IN  /\ width > 0
             /\ width <= Len(bytes)
             /\ \A i \in 2 .. width : bytes[i] >= 128 /\ bytes[i] <= 191
             /\ b = 224 => bytes[2] >= 160
             /\ b = 237 => bytes[2] <= 159
             /\ b = 240 => bytes[2] >= 144
             /\ b = 244 => bytes[2] <= 143
             /\ Utf8Ok(SubSeq(bytes, width + 1, Len(bytes)))

\* What a call of field returns: Ok(Some(value)), Ok(None), Err, or a panic.
\* An Int of at most 32 bits carries its number; a 64-bit integer and a float
\* carry the eight bytes from_be_bytes is given, a text and a blob their bytes.
NoRes == [tag |-> "NoCall", vt |-> "", num |-> 0, bytes |-> <<>>]
None == [tag |-> "None", vt |-> "", num |-> 0, bytes |-> <<>>]
Panic == [tag |-> "Panic", vt |-> "", num |-> 0, bytes |-> <<>>]
Err(tag) == [tag |-> "Err", vt |-> tag, num |-> 0, bytes |-> <<>>]
Some(vt, num, bytes) == [tag |-> "Some", vt |-> vt, num |-> num, bytes |-> bytes]

\* input[offset] as i64, of a u8: the byte itself.
read_i8_at(in, offset) == in[offset + 1]

\* i16::from_be_bytes(..) as i64
read_i16_at(in, offset) ==
    LET u == in[offset + 1] * 256 + in[offset + 2]
    IN  IF u >= 32768 THEN u - 65536 ELSE u

\* i32::from_be_bytes(..) as i64
read_i32_at(in, offset) ==
    (IF in[offset + 1] >= 128 THEN in[offset + 1] - 256 ELSE in[offset + 1]) * 16777216
    + in[offset + 2] * 65536 + in[offset + 3] * 256 + in[offset + 4]

\* The match of Cursor::field on the field type.  A slice or an index past
\* the end of the payload panics; read_i24_at and read_i48_at unwrap the
\* conversion of a 3-byte and a 6-byte slice to an array of 4 and of 8, which
\* fails for every input.
Decode(rf, payload) ==
    LET have(n) == rf.offset + n <= Len(payload)
        slice(n) == SubSeq(payload, rf.offset + 1, rf.offset + n)
    IN  CASE rf.field_type = "Null" -> Some("Null", 0, <<>>)
          [] rf.field_type = "Zero" -> Some("Int", 0, <<>>)
          [] rf.field_type = "One" -> Some("Int", 1, <<>>)
          [] rf.field_type = "I8" ->
                IF have(1) THEN Some("Int", read_i8_at(payload, rf.offset), <<>>) ELSE Panic
          [] rf.field_type = "I16" ->
                IF have(2) THEN Some("Int", read_i16_at(payload, rf.offset), <<>>) ELSE Panic
          [] rf.field_type = "I32" ->
                IF have(4) THEN Some("Int", read_i32_at(payload, rf.offset), <<>>) ELSE Panic
          [] rf.field_type \in {"I24", "I48"} -> Panic
          [] rf.field_type = "I64" -> IF have(8) THEN Some("Int", 0, slice(8)) ELSE Panic
          [] rf.field_type = "Float" -> IF have(8) THEN Some("Float", 0, slice(8)) ELSE Panic
          [] rf.field_type = "String" ->
                IF have(rf.len) /\ Utf8Ok(slice(rf.len))
                THEN Some("String", 0, slice(rf.len)) ELSE Panic
          [] rf.field_type = "Blob" ->
                IF have(rf.len) THEN Some("Blob", 0, slice(rf.len)) ELSE Panic


\* self.payload.extend_from_slice(&overflow_data)
ReplacedBySlice(payload, overflow_data) == overflow_data

extend_from_slice(payload, overflow_data) == payload \o overflow_data

\* self.header.fields.get(n): the field at index n, if there is one.
NoField == [offset |-> 0, field_type |-> "Null", len |-> 0]

GetClamped(fields, n) ==
    IF fields = <<>> THEN [found |-> FALSE, field |-> NoField]
    ELSE [found |-> TRUE,
          field |-> fields[IF n < Len(fields) THEN n + 1 ELSE Len(fields)]]

get(fields, n) ==
    IF n < Len(fields) THEN [found |-> TRUE, field |-> fields[n + 1]]
    ELSE [found |-> FALSE, field |-> NoField]

\* Cursor::field(n) on cursor cur: the result and the cursor, the cache and
\* the pending read failures after the call.
field(cur, cache, fn, n) ==
    LET record_field == get(cur.header, n).field
        end == end_offset(record_field)
        spills == end > Len(cur.payload) - 1 /\ cur.next_overflow_page # 0
        ov == OverflowRead(cache, fn, cur.next_overflow_page, <<>>,
                           saturating_sub(end, Len(cur.payload)), 0)
        grown == [cur EXCEPT !.next_overflow_page = ov.next,
                             !.payload = extend_from_slice(@, ov.buffer)]
    IN  IF ~get(cur.header, n).found
        THEN [res |-> None, cursor |-> cur, cache |-> cache, failNext |-> fn,
              reads |-> 0]
        ELSE IF ~spills
        THEN [res |-> Decode(record_field, cur.payload), cursor |-> cur,
              cache |-> cache, failNext |-> fn, reads |-> 0]
        ELSE IF ov.tag # "ok"
        THEN [res |-> Err(ov.tag), cursor |-> cur, cache |-> ov.cache,
              failNext |-> ov.failNext, reads |-> ov.reads]
        ELSE [res |-> Decode(record_field, grown.payload), cursor |-> grown,
              cache |-> ov.cache, failNext |-> ov.failNext, reads |-> ov.reads]

NoCursor == <<>>
NoCall == [k |-> -1, res |-> NoRes, reads |-> 0, prePayload |-> <<>>, preNext |-> 0]

\* The field indexes asked for: the two columns, and one and two past them.
FieldIndexes == 0 .. 3

cursorPager == PagerClone(PagerNew)

CursorInit ==
    /\ row \in Rows
    /\ fault \in CursorFaults(row)
    /\ disk = CursorDisk(row, fault)
    /\ failNext = IF fault.kind = "flaky" THEN {fault.at} ELSE {}
    /\ pages = [c \in CacheIds |-> [n \in 1 .. Len(CursorDisk(row, fault)) |-> NoEntry]]
    /\ pagesLock = [c \in CacheIds |-> [readers |-> {}, writer |-> NoThread]]
    /\ input = [owner |-> NoThread, pos |-> 0]
    /\ pc = [t \in Threads |-> "idle"]
    /\ arg = [t \in Threads |-> NoArg]
    /\ buf = [t \in Threads |-> -1]
    /\ ret = [t \in Threads |-> NoRet]
    /\ parseCount = [n \in PageNos |-> 0]
    /\ handed = [n \in PageNos |-> {}]
    /\ failed = {}
    /\ tree = [depth |-> 1, fan |-> 0, rows |-> 1]
    /\ page_stack = [s \in Scanners |-> <<>>]
    /\ yielded = [s \in Scanners |-> <<>>]
    /\ visited = [s \in Scanners |-> <<>>]
    /\ last = [s \in Scanners |-> "new"]
    /\ errored = [s \in Scanners |-> FALSE]
    /\ ioHit = [s \in Scanners |-> FALSE]
    /\ cursor = NoCursor
    /\ lastCall = NoCall
    /\ prevCall = NoCall
    /\ given = <<>>
    /\ returned = <<>>

\* Scanner::next_record on the one-row table: the root leaf is read and its
\* first cell becomes the cursor, with the local payload and the number of
\* the first overflow page.
OpenCursor ==
    LET c == cursorPager.pages
        r == Load(pages[c], failNext, initial_page, "Page")
        e == NextElem(Pushed(r.entry))
    IN  /\ cursor = NoCursor
        /\ r.tag = "ok"
        /\ e.elem = "Cursor"
        /\ cursor' = e.cursor
        /\ pages' = [pages EXCEPT ![c] = r.cache]
        /\ failNext' = r.failNext
        /\ UNCHANGED <<row, lastCall, prevCall>>

\* One call of Cursor::field(k); after a panic the cursor is not called again.
Field(k) ==
    LET c == cursorPager.pages
        f == field(cursor, pages[c], failNext, k)
    IN  /\ cursor # NoCursor
        /\ lastCall.res.tag # "Panic"
        /\ cursor' = f.cursor
        /\ pages' = [pages EXCEPT ![c] = f.cache]
        /\ failNext' = f.failNext
        /\ prevCall' = lastCall
        /\ lastCall' = [k |-> k, res |-> f.res, reads |-> f.reads,
                        prePayload |-> cursor.payload,
                        preNext |-> cursor.next_overflow_page]
        /\ UNCHANGED row

CursorFrame ==
    UNCHANGED <<tree, fault, page_stack, yielded, visited, last, errored, ioHit,
                fnVars, disk, pagesLock, input, pc, arg, buf, ret, parseCount,
                handed, failed>>

CursorNext ==
    \/ OpenCursor /\ CursorFrame
    \/ \E k \in FieldIndexes : Field(k) /\ CursorFrame

SpecCursor == CursorInit /\ [][CursorNext]_vars

\* ----------------------------------------------------- claims on the cursor
\* C10: when field(k) succeeded and the next call is field(k) again, the
\* second call returns the same value, reads no overflow page, and leaves
\* payload and next_overflow_page as they were.
C10_FieldIdempotent ==
    (/\ prevCall.k = lastCall.k
     /\ prevCall.k >= 0
     /\ prevCall.res.tag \in {"Some", "None"})
    => /\ lastCall.res = prevCall.res
       /\ lastCall.reads = 0
       /\ cursor.payload = lastCall.prePayload
       /\ cursor.next_overflow_page = lastCall.preNext

\* The first call read overflow pages up to exactly the end of the field,
\* with more of the chain left, and the second call returned the same value.
C10_Witness ==
    /\ prevCall.k = lastCall.k
    /\ prevCall.k \in {0, 1}
    /\ prevCall.res.tag = "Some"
    /\ prevCall.reads > 0
    /\ lastCall.res = prevCall.res
    /\ Len(cursor.payload) = end_offset(cursor.header[lastCall.k + 1])
    /\ cursor.next_overflow_page # 0


\* C11: over any sequence of field calls, in any order of indexes, the
\* payload before a call is a prefix of the payload after it: its length never
\* decreases and the bytes already there are never changed.
PayloadKept == cursor # NoCursor => IsPrefix(cursor.payload, cursor'.payload)

C11_PayloadAppendOnly == [][PayloadKept]_vars

\* Two calls with different indexes each appended overflow bytes.
C11_Witness ==
    /\ prevCall.k = 0
    /\ prevCall.reads > 0
    /\ lastCall.k = 1
    /\ lastCall.reads > 0
    /\ Len(cursor.payload) > Len(lastCall.prePayload)
    /\ IsPrefix(lastCall.prePayload, cursor.payload)


\* The bytes of column k of the row as they were written: the blob after the
\* 3-byte record header, then the second column.
OriginalBytes(r, k) ==
    IF k = 0 THEN SubSeq(RowBytes(r), 4, 3 + r.pad)
    ELSE SubSeq(RowBytes(r), 4 + r.pad, Len(RowBytes(r)))

OriginalEnd(r, k) == IF k = 0 THEN 3 + r.pad ELSE Len(RowBytes(r))

\* C12: for a text or blob column that extends beyond the local payload, a
\* value returned by field is exactly the column's original bytes (local bytes
\* followed by the overflow pages' bytes in chain order, cut at the column's
\* offset and length), and with a whole chain and well-formed text the call
\* does return a value, for any number of overflow pages.
C12_OverflowFieldBytes ==
    (/\ cursor # NoCursor
     /\ lastCall.k \in {0, 1}
     /\ cursor.header[lastCall.k + 1].field_type \in {"String", "Blob"}
     /\ OriginalEnd(row, lastCall.k) > row.local)
    => /\ lastCall.res.tag = "Some" =>
            /\ lastCall.res.vt = cursor.header[lastCall.k + 1].field_type
            /\ lastCall.res.bytes = OriginalBytes(row, lastCall.k)
       /\ (/\ fault.kind = "none"
           /\ \/ cursor.header[lastCall.k + 1].field_type = "Blob"
              \/ Utf8Ok(OriginalBytes(row, lastCall.k)))
          => lastCall.res.tag = "Some"

\* A text that starts in the leaf cell and runs over two overflow pages, both
\* read by this call, came back byte for byte.
C12_Witness ==
    /\ cursor # NoCursor
    /\ lastCall.k = 1
    /\ lastCall.res.tag = "Some"
    /\ lastCall.res.vt = "String"
    /\ lastCall.res.bytes = OriginalBytes(row, 1)
    /\ lastCall.reads >= 2
    /\ row.local > 3 + row.pad
    /\ row.local < Len(RowBytes(row))


\* C13: field(n) with n at or past the number of fields of the record header
\* returns Ok(None), reads no overflow page and leaves payload and
\* next_overflow_page as they were.
C13_PastLastField ==
    (cursor # NoCursor /\ lastCall.k >= Len(cursor.header))
    => /\ lastCall.res = None
       /\ lastCall.reads = 0
       /\ cursor.payload = lastCall.prePayload
       /\ cursor.next_overflow_page = lastCall.preNext

\* field was called with an index past the two columns while part of the row
\* was still on unread overflow pages.
C13_Witness ==
    /\ cursor # NoCursor
    /\ lastCall.k >= 2
    /\ prevCall.k >= 2
    /\ prevCall.k # lastCall.k
    /\ lastCall.res = None
    /\ cursor.next_overflow_page # 0
    /\ Len(cursor.payload) < Len(RowBytes(row))


\* ------------------------------------------------------ parsing functions
\* The runs that call one parsing function on given bytes or numbers open no
\* file: there is no pager, no scanner and no cursor.
NoPager ==
    /\ pages = <<>>
    /\ pagesLock = <<>>
    /\ input = [owner |-> NoThread, pos |-> 0]
    /\ pc = [t \in Threads |-> "idle"]
    /\ arg = [t \in Threads |-> NoArg]
    /\ buf = [t \in Threads |-> -1]
    /\ ret = [t \in Threads |-> NoRet]
    /\ parseCount = <<>>
    /\ handed = <<>>
    /\ failed = {}
    /\ tree = [depth |-> 0, fan |-> 0, rows |-> 0]
    /\ fault = [kind |-> "none", at |-> 0]
    /\ failNext = {}
    /\ page_stack = <<>>
    /\ yielded = <<>>
    /\ visited = <<>>
    /\ last = <<>>
    /\ errored = <<>>
    /\ ioHit = <<>>
    /\ row = <<>>
    /\ cursor = NoCursor
    /\ lastCall = NoCall
    /\ prevCall = NoCall

NoFile == disk = <<>> /\ NoPager

NotCalled == [tag |-> "none"]

FnFrame == UNCHANGED <<pagerVars, scanVars, cursorVars, given>>


\* ------------------------------------------------- local and overflow size
\* let min_size = ((usable - 12) * 32 / 255) - 23
MinSizeOfIndexPage(usable) == (((usable - 12) * 64) \div 255) - 23

min_size(usable) == (((usable - 12) * 32) \div 255) - 23

\* PageHeader::local_payload_size: an error for an interior page; on a leaf
\* the payload itself up to usable - 35, else k or min_size.
local_payload_size(page_type, usable, payload_size) ==
    LET max_size == usable - 35
        k == min_size(usable) + ((payload_size - min_size(usable)) % (usable - 4))
    IN  IF page_type = "TableInterior" THEN [tag |-> "err", size |-> 0]
        ELSE IF payload_size <= max_size THEN [tag |-> "ok", size |-> payload_size]
        ELSE [tag |-> "ok", size |-> IF k <= max_size THEN k ELSE min_size(usable)]

\* PageHeader::local_and_overflow_size: (local, None) when all of the payload
\* is local, else (local, Some(payload_size.saturating_sub(local))).
local_and_overflow_size(page_type, usable, payload_size) ==
    LET local == local_payload_size(page_type, usable, payload_size)
    IN  IF local.tag # "ok"
        THEN [tag |-> "err", local |-> 0, overflow |-> [some |-> FALSE, size |-> 0]]
        ELSE IF local.size = payload_size
        THEN [tag |-> "ok", local |-> local.size,
              overflow |-> [some |-> FALSE, size |-> 0]]
        ELSE [tag |-> "ok", local |-> local.size,
              overflow |-> [some |-> TRUE,
                            size |-> saturating_sub(payload_size, local.size)]]

\* The usable page sizes and payload sizes the function is called with: every
\* payload size up to MaxPayloadPages usable sizes on a leaf, and two sizes on
\* an interior page.
UsableSizes == {512, 4096, 65536}

SizesInit ==
    /\ NoFile
    /\ returned = NotCalled
    /\ \E u \in UsableSizes :
          \/ \E p \in 0 .. (MaxPayloadPages * u) :
                given = [page_type |-> "TableLeaf", usable |-> u, payload_size |-> p]
          \/ \E p \in {0, u} :
                given = [page_type |-> "TableInterior", usable |-> u, payload_size |-> p]

LocalAndOverflowSize ==
    /\ returned = NotCalled
    /\ returned' = local_and_overflow_size(given.page_type, given.usable,
                                           given.payload_size)
    /\ FnFrame

SizesNext == LocalAndOverflowSize

SpecSizes == SizesInit /\ [][SizesNext]_vars

\* C14: on a table-leaf header, for U in {512, 4096, 65536} and P in 0..10*U,
\* local + (overflow or 0) = P and local <= U - 35; when P <= U - 35, local = P
\* and overflow is None; when P > U - 35, local is K = M + ((P - M) mod (U - 4))
\* if K <= U - 35 and M otherwise, with M = ((U - 12) * 32 / 255) - 23.
C14_LocalAndOverflow ==
    (returned # NotCalled /\ given.page_type = "TableLeaf")
    => LET U == given.usable
           P == given.payload_size
           M == (((U - 12) * 32) \div 255) - 23
           K == M + ((P - M) % (U - 4))
       IN  /\ returned.tag = "ok"
           /\ returned.local + (IF returned.overflow.some
                                THEN returned.overflow.size ELSE 0) = P
           /\ returned.local <= U - 35
           /\ P <= U - 35 => returned.local = P /\ ~returned.overflow.some
           /\ P > U - 35 => returned.local = (IF K <= U - 35 THEN K ELSE M)

\* A payload for which K is above U - 35, so that the local size is M and the
\* rest overflows.
C14_Witness ==
    /\ returned # NotCalled
    /\ given.page_type = "TableLeaf"
    /\ given.usable = 4096
    /\ given.payload_size > given.usable - 35
    /\ returned.tag = "ok"
    /\ returned.local = (((given.usable - 12) * 32) \div 255) - 23
    /\ returned.overflow.some
    /\ returned.overflow.size > 2 * given.usable


\* ------------------------------------------------------------------ varint
\* The buffers read_varint_at is called on: every buffer of up to
\* MaxVarintBuf bytes over three bytes (continuation bit with low bits all
\* zero, all one, and no continuation bit), and the buffers of the tests
\* short_varint, middle_varint, long_varint and minus_one, read at offsets 0
\* and 1.
VarintBytes == {127, 128, 255}

VarintFixtures ==
    {<<1>>, <<129, 127>>,
     <<128, 255, 128, 128, 128, 128, 128, 128, 109>>,
     <<255, 255, 255, 255, 255, 255, 255, 255, 255>>}

VarintInit ==
    /\ NoFile
    /\ returned = NotCalled
    /\ \E offset \in 0 .. 1 :
          \/ \E n \in 1 .. MaxVarintBuf : \E buffer \in [1 .. n -> VarintBytes] :
                given = [buffer |-> buffer, offset |-> offset]
          \/ \E buffer \in VarintFixtures :
                given = [buffer |-> buffer, offset |-> offset]

ReadVarintAt ==
    /\ returned = NotCalled
    /\ returned' = read_varint_at(given.buffer, given.offset)
    /\ FnFrame

VarintNext == ReadVarintAt

SpecVarint == VarintInit /\ [][VarintNext]_vars

\* The bits of a number of k bits, and of an i64, most significant first.
Bits(n, k) == [i \in 1 .. k |-> (n \div (2 ^ (k - i))) % 2]

WordBits(w) == [j \in 1 .. 64 |-> (w[((j - 1) \div 8) + 1] \div (2 ^ (7 - ((j - 1) % 8)))) % 2]

\* The position of the first byte without the continuation bit, or 9.
FirstStop(buffer, offset) ==
    IF \E i \in 1 .. 8 : buffer[offset + i] < 128
    THEN CHOOSE i \in 1 .. 8 :
            /\ buffer[offset + i] < 128
            /\ \A j \in 1 .. (i - 1) : buffer[offset + j] >= 128
    ELSE 9

\* The low 7 bits of each of the first up to eight bytes, then all 8 bits of
\* a ninth, one after the other.
RECURSIVE Concatenated(_, _, _)
Concatenated(buffer, offset, consumed) ==
    IF consumed = 0 THEN <<>>
    ELSE Concatenated(buffer, offset, consumed - 1)
         \o (IF consumed = 9 THEN Bits(buffer[offset + 9], 8)
             ELSE Bits(buffer[offset + consumed] % 128, 7))

LeftPadded(bits) == [i \in 1 .. (64 - Len(bits)) |-> 0] \o bits

\* The varint lies inside the buffer: a byte without the continuation bit, or
\* nine bytes, from the offset on.
VarintInside(buffer, offset) ==
    \/ Len(buffer) >= offset + 9
    \/ \E i \in (offset + 1) .. Len(buffer) : buffer[i] < 128

\* C15: read_varint_at returns (consumed, value) with consumed in 1..9 the
\* position of the first byte without the continuation bit (9 if the first
\* eight all have it) and value the low 7 bits of each of the first up to
\* eight bytes followed by all 8 bits of a ninth, as a signed 64-bit integer;
\* the four buffers of the tests give (1, 1), (2, 255), (9, -1) and
\* (9, 0x01FC00000000006D).
C15_Varint ==
    (returned # NotCalled /\ VarintInside(given.buffer, given.offset))
    => /\ ~returned.panic
       /\ returned.size \in 1 .. 9
       /\ returned.size = FirstStop(given.buffer, given.offset)
       /\ WordBits(returned.word)
            = LeftPadded(Concatenated(given.buffer, given.offset, returned.size))
       /\ (given.offset = 0 /\ given.buffer = <<1>>)
            => returned.size = 1 /\ returned.value = 1
       /\ (given.offset = 0 /\ given.buffer = <<129, 127>>)
            => returned.size = 2 /\ returned.value = 255
       /\ (given.offset = 0 /\ given.buffer = [i \in 1 .. 9 |-> 255])
            => returned.size = 9 /\ returned.value = -1
       /\ (given.offset = 0
           /\ given.buffer = <<128, 255, 128, 128, 128, 128, 128, 128, 109>>)
            => returned.size = 9 /\ returned.word = <<1, 252, 0, 0, 0, 0, 0, 109>>

\* A nine-byte varint read at an offset inside a longer buffer, whose ninth
\* byte has the high bit set and whose value is negative.
C15_Witness ==
    /\ returned # NotCalled
    /\ given.offset = 1
    /\ Len(given.buffer) = 10
    /\ returned.size = 9
    /\ given.buffer[10] = 255
    /\ given.buffer[2] = 255
    /\ returned.word[1] >= 128
    /\ returned.word[8] = 255


\* ------------------------------------------------------ fixed-width readers
\* A number within 32 bits as an i64 (`as i64`).
ToWord(n) ==
    LET fill == IF n < 0 THEN 255 ELSE 0
    IN  <<fill, fill, fill, fill, (n \div 16777216) % 256, (n \div 65536) % 256,
          (n \div 256) % 256, n % 256>>

\* i64::from_be_bytes(input[offset..offset + 8].try_into().unwrap())
read_i64_at(in, offset) == SubSeq(in, offset + 1, offset + 8)

\* The reader Cursor::field uses for an integer column of the given width.
\* input[offset..offset + n] panics past the end of the input; read_i24_at
\* and read_i48_at then unwrap the conversion of a slice of 3 bytes to
\* [u8; 4] and of 6 bytes to [u8; 8], which fails for every slice.
FixedReader(width, in, offset) ==
    IF offset + (width \div 8) > Len(in) THEN [tag |-> "panic", word |-> Zero64]
    ELSE CASE width = 8 -> [tag |-> "ok", word |-> ToWord(read_i8_at(in, offset))]
           [] width = 16 -> [tag |-> "ok", word |-> ToWord(read_i16_at(in, offset))]
           [] width = 32 -> [tag |-> "ok", word |-> ToWord(read_i32_at(in, offset))]
           [] width = 64 -> [tag |-> "ok", word |-> read_i64_at(in, offset)]
           [] OTHER -> [tag |-> "panic", word |-> Zero64]

Widths == {8, 16, 24, 32, 48, 64}

\* The encodings read: every value of 8 and of 16 bits, and for the wider
\* ones every encoding over the bytes 0x00, 0x7F, 0x80 and 0xFF, each after
\* up to MaxReadOffset other bytes.
EdgeBytes == {0, 127, 128, 255}

ReadersInit ==
    /\ NoFile
    /\ returned = NotCalled
    /\ \E width \in Widths, offset \in 0 .. MaxReadOffset :
          \E enc \in [1 .. (width \div 8) -> IF width <= 16 THEN 0 .. 255 ELSE EdgeBytes] :
             given = [width |-> width, offset |-> offset, encoding |-> enc,
                      input |-> [i \in 1 .. offset |-> 90] \o enc]

ReadFixed ==
    /\ returned = NotCalled
    /\ returned' = FixedReader(given.width, given.input, given.offset)
    /\ FnFrame

ReadersNext == ReadFixed

SpecReaders == ReadersInit /\ [][ReadersNext]_vars

\* The signed value of an encoding, sign-extended to 64 bits.
SignExtended(enc) ==
    [i \in 1 .. (8 - Len(enc)) |-> IF enc[1] >= 128 THEN 255 ELSE 0] \o enc

\* C16: for every width n in {8, 16, 24, 32, 48, 64} and every signed value v
\* of n bits, the reader applied to the n-bit big-endian two's-complement
\* encoding of v returns v as a 64-bit signed integer, negative values
\* sign-extended from their width.
C16_FixedWidthReaders ==
    returned # NotCalled
    => /\ returned.tag = "ok"
       /\ returned.word = SignExtended(given.encoding)


\* ------------------------------------------------------- database header
\* b"SQLite format 3\0"
HEADER_PREFIX == <<83, 81, 76, 105, 116, 101, 32, 102, 111, 114, 109, 97, 116, 32, 51, 0>>
HEADER_PAGE_SIZE_OFFSET == 16
HEADER_PAGE_RESERVED_SIZE_OFFSET == 20
PAGE_MAX_SIZE == 65536

\* u16::from_be_bytes(input[offset..offset + 2])
read_be_word_at(in, offset) == in[offset + 1] * 256 + in[offset + 2]

\* buffer.starts_with(HEADER_PREFIX)
StartsWithFirstByte(buffer, prefix) == buffer # <<>> /\ buffer[1] = prefix[1]

starts_with(buffer, prefix) == IsPrefix(prefix, buffer)

\* u16::is_power_of_two
is_power_of_two(n) == \E k \in 0 .. 15 : n = 2 ^ k

\* parse_header(buffer): the prefix is checked first, then the page size word
\* (1 is PAGE_MAX_SIZE, else a power of two), then the reserved size is read.
parse_header(buffer) ==
    LET page_size_raw == read_be_word_at(buffer, HEADER_PAGE_SIZE_OFFSET)
        bad == [tag |-> "err", page_size |-> 0, page_reserved_size |-> 0]
    IN  IF ~starts_with(buffer, HEADER_PREFIX) THEN [bad EXCEPT !.tag = "prefix"]
        ELSE IF page_size_raw # 1 /\ ~is_power_of_two(page_size_raw) THEN bad
        ELSE [tag |-> "ok",
              page_size |-> IF page_size_raw = 1 THEN PAGE_MAX_SIZE ELSE page_size_raw,
              page_reserved_size |-> buffer[HEADER_PAGE_RESERVED_SIZE_OFFSET + 1]]

\* The first HEADER_SIZE bytes of a file: 16 bytes of prefix, the page size
\* word at 16, the reserved size at 20.
HeaderBuffer(prefix, page_size_raw, reserved) ==
    [i \in 1 .. HEADER_SIZE |->
        CASE i <= Len(prefix) -> prefix[i]
          [] i = HEADER_PAGE_SIZE_OFFSET + 1 -> page_size_raw \div 256
          [] i = HEADER_PAGE_SIZE_OFFSET + 2 -> page_size_raw % 256
          [] i = HEADER_PAGE_RESERVED_SIZE_OFFSET + 1 -> reserved
          [] OTHER -> 0]

\* The prefixes tried: the right one, and the right one with one byte changed.
Prefixes ==
    {HEADER_PREFIX}
    \cup {[HEADER_PREFIX EXCEPT ![i] = (@ + 1) % 256] : i \in 1 .. Len(HEADER_PREFIX)}

HeaderInit ==
    /\ NoFile
    /\ returned = NotCalled
    /\ \/ \E raw \in 0 .. 65535, reserved \in {0, 32} :
             given = [page_size_raw |-> raw,
                      buffer |-> HeaderBuffer(HEADER_PREFIX, raw, reserved)]
       \/ \E prefix \in Prefixes, raw \in {1, 2, 3, 4096} :
             given = [page_size_raw |-> raw, buffer |-> HeaderBuffer(prefix, raw, 0)]

ParseHeader ==
    /\ returned = NotCalled
    /\ returned' = parse_header(given.buffer)
    /\ FnFrame

HeaderNext == ParseHeader

SpecHeader == HeaderInit /\ [][HeaderNext]_vars

\* C17: whenever parse_header succeeds the page size is a power of two in
\* {512, 1024, ..., 32768, 65536}, the raw value 1 giving 65536; every other
\* raw value (0, a number that is not a power of two, a power of two below
\* 512) is rejected with an error.
C17_PageSizeInRange ==
    returned # NotCalled
    => /\ returned.tag = "ok" =>
            /\ returned.page_size \in {2 ^ k : k \in 9 .. 16}
            /\ given.page_size_raw = 1 => returned.page_size = 65536
       /\ given.page_size_raw \notin ({1} \cup {2 ^ k : k \in 9 .. 15})
            => returned.tag # "ok"


\* --------------------------------------------------------- opening a file
\* Db::from_file, step by step.  given is the file: whether it can be opened,
\* its length, its first HEADER_SIZE bytes, and whether its schema table can
\* be read; returned is how far from_file has come: the pagers created, the
\* pages read, and the Db or the error returned.
Files ==
    [exists : BOOLEAN, len : {16, HEADER_SIZE, 8192},
     prefix : Prefixes, page_size_raw : {1, 3, 4096}, schema_ok : BOOLEAN]

FileHeader(f) == HeaderBuffer(f.prefix, f.page_size_raw, 0)

Opening == [stage |-> "start", error |-> "", pagers |-> 0, pages_read |-> 0,
            db |-> FALSE]

Failed(error) == [returned EXCEPT !.stage = "err", !.error = error]

OpenInit == NoFile /\ given \in Files /\ returned = Opening

\* std::fs::File::open(filename).context("open db file")?
OpenFile ==
    /\ returned.stage = "start"
    /\ returned' = IF given.exists THEN [returned EXCEPT !.stage = "opened"]
                   ELSE Failed("open db file")
    /\ FnFrame

\* file.read_exact(&mut header_buffer).context("read db header")?
ReadDbHeader ==
    /\ returned.stage = "opened"
    /\ returned' = IF given.len >= HEADER_SIZE
                   THEN [returned EXCEPT !.stage = "header_read"]
                   ELSE Failed("read db header")
    /\ FnFrame

\* pager::parse_header(&header_buffer).context("parse db header")?
ParseDbHeader ==
    /\ returned.stage = "header_read"
    /\ returned' = IF parse_header(FileHeader(given)).tag = "ok"
                   THEN [returned EXCEPT !.stage = "parsed"]
                   ELSE Failed("parse db header")
    /\ FnFrame

\* Self::collect_tables_metadata(&mut Pager::new(..))?: a pager is created
\* and a scanner reads the schema table from page 1.
CollectTablesMetadata ==
    /\ returned.stage = "parsed"
    /\ returned' = [(IF given.schema_ok
                     THEN [returned EXCEPT !.stage = "collected"]
                     ELSE Failed("schema"))
                    EXCEPT !.pagers = @ + 1, !.pages_read = @ + 1]
    /\ FnFrame

\* let pager = Pager::new(..); Ok(Db { header, pager, tables_metadata })
NewDb ==
    /\ returned.stage = "collected"
    /\ returned' = [returned EXCEPT !.stage = "done", !.pagers = @ + 1, !.db = TRUE]
    /\ FnFrame

OpenNext ==
    \/ OpenFile
    \/ ReadDbHeader
    \/ ParseDbHeader
    \/ CollectTablesMetadata
    \/ NewDb

SpecOpen == OpenInit /\ [][OpenNext]_vars

\* C18: opening a file whose first 16 bytes differ from "SQLite format 3\0"
\* fails with an error before any pager is created: no page is read or
\* parsed and no Db is produced.
BadMagic == given.prefix # HEADER_PREFIX

NothingOpened ==
    BadMagic
    => /\ returned.pagers = 0
       /\ returned.pages_read = 0
       /\ ~returned.db
       /\ returned.stage \in {"start", "opened", "header_read", "err"}

FailsAtHeader ==
    (BadMagic /\ returned.stage = "header_read")
    => returned'.stage = "err" /\ returned'.error = "parse db header"

C18_BadMagicFailsEarly == []NothingOpened /\ [][FailsAtHeader]_vars

\* A file with one byte of the prefix changed, and a page size and a schema
\* table that are fine, was refused at the header.
C18_Witness ==
    /\ given \in Files
    /\ BadMagic
    /\ given.prefix[1] = HEADER_PREFIX[1]
    /\ given.exists
    /\ given.len > HEADER_SIZE
    /\ given.page_size_raw = 4096
    /\ given.schema_ok
    /\ returned.stage = "err"
    /\ returned.error = "parse db header"
    /\ returned.pagers = 0


\* ---------------------------------------------------------- record headers
\* The serial type codes tried: 0..13, two codes of two varint bytes, and a
\* negative one (nine bytes).
TypeCodes == (0 .. 13) \cup {128, 129, -1}

\* The varint of a type code.
CodeVarint(code) ==
    IF code < 0 THEN [i \in 1 .. 9 |-> 255]
    ELSE IF code < 128 THEN <<code>>
    ELSE <<128 + (code \div 128), code % 128>>

RECURSIVE CodeVarints(_)
CodeVarints(codes) ==
    IF codes = <<>> THEN <<>> ELSE CodeVarint(Head(codes)) \o CodeVarints(Tail(codes))

\* A record: the header_length varint, the type codes, and `data` more bytes;
\* cut == TRUE leaves out the last byte of the header.
RecordBuffer(codes, data, cut) ==
    LET whole == <<1 + Len(CodeVarints(codes))>> \o CodeVarints(codes)
    IN  IF cut THEN SubSeq(whole, 1, Len(whole) - 1)
        ELSE whole \o [i \in 1 .. data |-> 7]

\* The record is the only cell of a leaf page, and the page is on top of the
\* stack of a scanner.
RecordInit ==
    /\ NoPager
    /\ returned = NotCalled
    /\ \E n \in 0 .. MaxHeaderFields, data \in {0, 1}, cut \in BOOLEAN :
          \E codes \in [1 .. n -> TypeCodes] :
             /\ cut => data = 0
             /\ given = [codes |-> codes, cut |-> cut,
                         buffer |-> RecordBuffer(codes, data, cut)]
    /\ disk = <<LeafRaw(<<LeafCell(given.buffer, 0)>>)>>

\* parse_record_header on the cell's payload, as called by next_elem, and
\* what next_elem makes of it.
ParseRecordHeader ==
    /\ returned = NotCalled
    /\ returned' = [tag |-> "called",
                    header |-> parse_record_header(given.buffer),
                    elem |-> NextElem(Pushed([kind |-> "Page", n |-> 1, gen |-> 1]))]
    /\ UNCHANGED <<pagerVars, scanVars, cursorVars, given>>

RecordNext == ParseRecordHeader

SpecRecord == RecordInit /\ [][RecordNext]_vars

\* size_of as the claim gives it, by type code.
SizeOfCode(n) ==
    CASE n \in 0 .. 9 -> <<0, 1, 2, 3, 4, 6, 8, 8, 0, 0>>[n + 1]
      [] n >= 12 /\ n % 2 = 0 -> (n - 12) \div 2
      [] n >= 13 /\ n % 2 = 1 -> (n - 13) \div 2
      [] OTHER -> 0

\* C19: in every record header parse_record_header produces, fields[0].offset
\* is the value of the header_length varint and fields[i+1].offset =
\* fields[i].offset + size_of(fields[i].type), with sizes 0/1/2/3/4/6/8/8/0/0
\* for the codes 0..9, (n-12)/2 for a blob and (n-13)/2 for a text.
C19_FieldOffsets ==
    (returned # NotCalled /\ returned.header.tag = "ok")
    => LET fields == returned.header.fields
       IN  /\ Len(fields) = Len(given.codes)
           /\ fields # <<>> => fields[1].offset = given.buffer[1]
           /\ \A i \in 1 .. (Len(fields) - 1) :
                 fields[i + 1].offset = fields[i].offset + SizeOfCode(given.codes[i])

\* A header of three fields, a 48-bit integer first and a text of two varint
\* bytes second, was parsed.
C19_Witness ==
    /\ returned # NotCalled
    /\ returned.header.tag = "ok"
    /\ Len(returned.header.fields) = 3
    /\ given.codes[1] = 5
    /\ given.codes[2] = 129
    /\ returned.header.fields[3].offset = given.buffer[1] + 6 + 58


\* C20: whenever a type code of the record header is 10 or 11, or otherwise
\* not a defined code, parse_record_header returns an error and the scanner
\* yields no cursor for the row; no header it returns has a field for such a
\* code.
Undefined(code) == code \in {10, 11} \/ code < 0

C20_ReservedCodesRejected ==
    (returned # NotCalled /\ ~given.cut)
    => /\ (\E i \in DOMAIN given.codes : Undefined(given.codes[i]))
            => /\ returned.header.tag = "err"
               /\ returned.elem.elem = "Err"
               /\ returned.elem.cursor = <<>>
       /\ returned.header.tag = "ok"
            => /\ \A i \in DOMAIN given.codes : ~Undefined(given.codes[i])
               /\ Len(returned.header.fields) = Len(given.codes)
               /\ returned.elem.elem = "Cursor"

\* A header whose second code of three is the reserved 11 was refused.
C20_Witness ==
    /\ returned # NotCalled
    /\ ~given.cut
    /\ Len(given.codes) = 3
    /\ given.codes[1] = 1
    /\ given.codes[2] = 11
    /\ given.codes[3] = 13
    /\ returned.header.tag = "err"
    /\ returned.elem.elem = "Err"


\* ------------------------------------------------------------ page parsing
PAGE_CELL_COUNT_OFFSET == 3
PAGE_RIGHTMOST_POINTER_OFFSET == 8

\* &buffer[n..]
Drop(buffer, n) == SubSeq(buffer, n + 1, Len(buffer))

\* u32::from_be_bytes(input[offset..offset + 4])
read_be_double_at(in, offset) ==
    in[offset + 1] * 16777216 + in[offset + 2] * 65536 + in[offset + 3] * 256
    + in[offset + 4]

\* parse_page_header: the page type from byte 0, the cell count from the word
\* at 3, the rightmost pointer of an interior page from the double at 8.
parse_page_header(buffer) ==
    IF buffer[1] \notin {PAGE_LEAF_TABLE_ID, PAGE_INTERIOR_TABLE_ID}
    THEN [tag |-> "err", page_type |-> "", cell_count |-> 0,
          rightmost_pointer |-> [some |-> FALSE, page |-> 0]]
    ELSE [tag |-> "ok",
          page_type |-> IF buffer[1] = PAGE_LEAF_TABLE_ID THEN "TableLeaf"
                        ELSE "TableInterior",
          cell_count |-> read_be_word_at(buffer, PAGE_CELL_COUNT_OFFSET),
          rightmost_pointer |->
              IF buffer[1] = PAGE_INTERIOR_TABLE_ID
              THEN [some |-> TRUE,
                    page |-> read_be_double_at(buffer, PAGE_RIGHTMOST_POINTER_OFFSET)]
              ELSE [some |-> FALSE, page |-> 0]]

\* PageHeader::byte_size
byte_size(header) == IF header.rightmost_pointer.some THEN 12 ELSE 8

\* parse_cell_pointers: the n words after the page header, each less
\* ptr_offset.
PointersAsStored(buffer, n, ptr_offset) ==
    [i \in 1 .. n |-> read_be_word_at(buffer, 2 * (i - 1))]

parse_cell_pointers(buffer, n, ptr_offset) ==
    [i \in 1 .. n |-> read_be_word_at(buffer, 2 * (i - 1)) - ptr_offset]

\* parse_table_leaf_cell: the payload size varint, the ROWID varint, then
\* local_size bytes of payload and, if the payload overflows, the number of
\* the first overflow page.
parse_table_leaf_cell(db_header, header, buffer) ==
    LET size == read_varint_at(buffer, 0)
        after_size == Drop(buffer, size.size)
        rowid == read_varint_at(after_size, 0)
        rest == Drop(after_size, rowid.size)
        sizes == local_and_overflow_size(header.page_type,
                                         db_header.page_size - db_header.page_reserved_size,
                                         size.value)
    IN  IF sizes.tag # "ok"
        THEN [tag |-> "err", payload |-> <<>>, left_child_page |-> 0,
              first_overflow |-> [some |-> FALSE, page |-> 0]]
        ELSE [tag |-> "TableLeaf", payload |-> SubSeq(rest, 1, sizes.local),
              left_child_page |-> 0,
              first_overflow |->
                  IF sizes.overflow.some
                  THEN [some |-> TRUE, page |-> read_be_double_at(rest, sizes.local)]
                  ELSE [some |-> FALSE, page |-> 0]]

\* parse_table_interior_cell
parse_table_interior_cell(db_header, header, buffer) ==
    [tag |-> "TableInterior", payload |-> <<>>,
     left_child_page |-> read_be_double_at(buffer, 0),
     first_overflow |-> [some |-> FALSE, page |-> 0]]

\* parse_cells: one cell per pointer, in pointer order; the first error is
\* returned.
parse_cells(db_header, header, buffer, cell_pointers) ==
    LET cells == [i \in DOMAIN cell_pointers |->
                    IF header.page_type = "TableLeaf"
                    THEN parse_table_leaf_cell(db_header, header,
                                               Drop(buffer, cell_pointers[i]))
                    ELSE parse_table_interior_cell(db_header, header,
                                                   Drop(buffer, cell_pointers[i]))]
    IN  [tag |-> IF \E i \in DOMAIN cells : cells[i].tag = "err" THEN "err" ELSE "ok",
         cells |-> cells]

\* parse_page(db_header, buffer, page_num): on page 1 the page header starts
\* at byte HEADER_SIZE and the cell pointers are taken less HEADER_SIZE.
parse_page(db_header, buffer, page_num) ==
    LET ptr_offset == IF page_num = 1 THEN HEADER_SIZE ELSE 0
        content_buffer == Drop(buffer, ptr_offset)
        header == parse_page_header(content_buffer)
        cell_pointers == parse_cell_pointers(Drop(content_buffer, byte_size(header)),
                                             header.cell_count, ptr_offset)
        cells == parse_cells(db_header, header, content_buffer, cell_pointers)
    IN  IF header.tag # "ok" \/ cells.tag # "ok"
        THEN [tag |-> "err", header |-> header, cells |-> <<>>]
        ELSE [tag |-> "ok", header |-> header, cells |-> cells.cells]


\* The local size of a payload of P bytes on a leaf of usable size U, as the
\* file format has it.
FormatLocalSize(U, P) ==
    LET M == (((U - 12) * 32) \div 255) - 23
        K == M + ((P - M) % (U - 4))
    IN  IF P <= U - 35 THEN P ELSE IF K <= U - 35 THEN K ELSE M

\* The payload sizes written: none, and the sizes around the thresholds of
\* the format for usable size U.
PayloadSizes(U) ==
    LET M == (((U - 12) * 32) \div 255) - 23
    IN  {0, M, U - 35, U - 34, M + (U - 4), (U - 35) + (U - 4), (U - 34) + (U - 4)}

\* A cell as a well-formed file holds it: the payload size and the ROWID as
\* varints, the local part of the payload and, if the payload overflows, the
\* number of its first overflow page (the ROWID plus 1 here).
WrittenCell(U, c) ==
    LET local == FormatLocalSize(U, c.size)
    IN  (IF c.size < 128 THEN <<c.size>> ELSE <<128 + (c.size \div 128), c.size % 128>>)
        \o <<c.rowid>>
        \o [i \in 1 .. local |-> (c.rowid * 31 + i) % 256]
        \o (IF local < c.size THEN <<0, 0, 0, c.rowid + 1>> ELSE <<>>)

\* Where cell i starts in the page: the cells fill the usable part of the
\* page from its end backwards.
RECURSIVE CellStart(_, _, _)
CellStart(U, cells, i) ==
    (IF i = 1 THEN U ELSE CellStart(U, cells, i - 1)) - Len(WrittenCell(U, cells[i]))

\* The bytes of the leaf page f.page_num of a file with pages of f.page_size
\* bytes: on page 1 the 100 bytes of the database header come first; the
\* cell pointers count from the start of the page.
WrittenPage(f) ==
    LET U == f.page_size - f.page_reserved_size
        at == IF f.page_num = 1 THEN HEADER_SIZE ELSE 0
        n == Len(f.cells)
    IN  [b \in 1 .. f.page_size |->
            LET i == b - 1
                k == (i - at - 8) \div 2
            IN  IF i = at THEN PAGE_LEAF_TABLE_ID
                ELSE IF i = at + PAGE_CELL_COUNT_OFFSET + 1 THEN n
                ELSE IF i >= at + 8 /\ i < at + 8 + 2 * n
                THEN (IF (i - at) % 2 = 0
                      THEN CellStart(U, f.cells, k + 1) \div 256
                      ELSE CellStart(U, f.cells, k + 1) % 256)
                ELSE IF \E c \in 1 .. n :
                          i >= CellStart(U, f.cells, c)
                          /\ i < CellStart(U, f.cells, c) + Len(WrittenCell(U, f.cells[c]))
                THEN LET c == CHOOSE c \in 1 .. n :
                                 i >= CellStart(U, f.cells, c)
                                 /\ i < CellStart(U, f.cells, c)
                                        + Len(WrittenCell(U, f.cells[c]))
                     IN  WrittenCell(U, f.cells[c])[i - CellStart(U, f.cells, c) + 1]
                ELSE 0]

\* The cells fit between the cell pointers and the end of the usable part.
Fits(f) ==
    LET U == f.page_size - f.page_reserved_size
        at == IF f.page_num = 1 THEN HEADER_SIZE ELSE 0
    IN  f.cells = <<>> \/ CellStart(U, f.cells, Len(f.cells)) >= at + 8 + 2 * Len(f.cells)

\* The leaf pages parsed: page 1 and page 2 of files with 512-byte pages and
\* 0 or 32 reserved bytes, with up to MaxCells cells.
PageInit ==
    /\ NoFile
    /\ returned = NotCalled
    /\ \E page_num \in {1, 2}, reserved \in {0, 32}, n \in 0 .. MaxCells :
          \E sizes \in [1 .. n -> PayloadSizes(512 - reserved)] :
             /\ given = [page_num |-> page_num, page_size |-> 512,
                         page_reserved_size |-> reserved,
                         cells |-> [i \in 1 .. n |-> [size |-> sizes[i], rowid |-> i]]]
             /\ Fits(given)

\* Pager::load: f(&buffer[0..self.header.usable_page_size()]) with f =
\* parse_page.
ParsePage ==
    /\ returned = NotCalled
    /\ returned' = parse_page([page_size |-> given.page_size,
                               page_reserved_size |-> given.page_reserved_size],
                              SubSeq(WrittenPage(given), 1,
                                     given.page_size - given.page_reserved_size),
                              given.page_num)
    /\ FnFrame

PageNext == ParsePage

SpecPage == PageInit /\ [][PageNext]_vars

\* C21: a well-formed table-leaf page, page 1 included, parses to exactly
\* cell_count cells in cell-pointer order; each cell's payload has the length
\* the overflow-threshold formula gives for its total payload size, and
\* first_overflow is present exactly when that is less than the total size.
C21_LeafPageCells ==
    returned # NotCalled
    => LET U == given.page_size - given.page_reserved_size
       IN  /\ returned.tag = "ok"
           /\ returned.header.cell_count = Len(given.cells)
           /\ Len(returned.cells) = returned.header.cell_count
           /\ \A i \in DOMAIN given.cells :
                 LET c == given.cells[i]
                     local == FormatLocalSize(U, c.size)
                 IN  /\ returned.cells[i].tag = "TableLeaf"
                     /\ Len(returned.cells[i].payload) = local
                     /\ returned.cells[i].payload
                          = [j \in 1 .. local |-> (c.rowid * 31 + j) % 256]
                     /\ returned.cells[i].first_overflow.some <=> local < c.size
                     /\ local < c.size
                          => returned.cells[i].first_overflow.page = c.rowid + 1

\* Page 1 with two cells, the first overflowing and the second not.
C21_Witness ==
    /\ returned # NotCalled
    /\ given.page_num = 1
    /\ returned.tag = "ok"
    /\ Len(returned.cells) = 2
    /\ returned.cells[1].first_overflow.some
    /\ returned.cells[1].first_overflow.page = 2
    /\ ~returned.cells[2].first_overflow.some
    /\ Len(returned.cells[2].payload) > 1


\* -------------------------------------------- claims on the overflow reads
\* The field the last call asked for, and the bytes of the row it ends at:
\* its offset plus the size of its serial type, 6 for a 48-bit integer.
AskedField == cursor.header[lastCall.k + 1]

FieldEnd(r, k) == IF k = 0 THEN 3 + r.pad ELSE 3 + r.pad + SizeOfCode(r.code)

\* C24: end_offset() of a field is its offset plus the in-memory size of its
\* type, 6 for a 48-bit integer, so that the end_offset of the first column is
\* the offset of the second and that of the last column is the end of the
\* row; a field call that finds the last byte of its field not yet in the
\* payload, with an overflow page left, reads from the overflow chain, and
\* after a call that returned a value the payload reaches the field's end.
C24_EndOffsetIsFieldEnd ==
    cursor # NoCursor
    => /\ end_offset(cursor.header[1]) = cursor.header[2].offset
       /\ end_offset(cursor.header[2]) = Len(RowBytes(row))
       /\ (/\ lastCall.k \in {0, 1}
           /\ lastCall.preNext # 0
           /\ FieldEnd(row, lastCall.k) > Len(lastCall.prePayload))
          => lastCall.reads > 0
       /\ (lastCall.k \in {0, 1} /\ lastCall.res.tag = "Some")
          => Len(cursor.payload) >= FieldEnd(row, lastCall.k)


\* C25: field(n) extends the payload from the overflow chain exactly when
\* end_offset > len(payload) and a next overflow page is recorded: when
\* end_offset <= len(payload), the boundary end_offset = len(payload)
\* included, or no page is recorded, no overflow page is requested from the
\* pager and payload and next_overflow_page stay as they were; otherwise
\* pages are requested and, unless a read fails, bytes are appended.
C25_ExtendsOnlyPastPayload ==
    (cursor # NoCursor /\ lastCall.k \in {0, 1})
    => LET end == end_offset(AskedField)
           len == Len(lastCall.prePayload)
       IN  /\ (end <= len \/ lastCall.preNext = 0)
                => /\ lastCall.reads = 0
                   /\ cursor.payload = lastCall.prePayload
                   /\ cursor.next_overflow_page = lastCall.preNext
           /\ (end > len /\ lastCall.preNext # 0)
                => /\ lastCall.reads > 0
                   /\ lastCall.res.tag # "Err"
                        => /\ Len(cursor.payload) > len
                           /\ cursor.next_overflow_page # lastCall.preNext

\* The blob ends exactly where the local payload ends, the rest of the row is
\* on overflow pages, and field(0) returned the blob without reading any.
C25_Witness ==
    /\ cursor # NoCursor
    /\ lastCall.k = 0
    /\ end_offset(AskedField) = Len(lastCall.prePayload)
    /\ lastCall.preNext # 0
    /\ lastCall.res.tag = "Some"
    /\ lastCall.reads = 0
    /\ Len(lastCall.res.bytes) > 0
    /\ cursor.next_overflow_page = lastCall.preNext


\* ------------------------------------------------------ overflow scanner
\* The chains read: pages 2 .. n + 1 of the file linked in any order, the
\* last with next = 0; page p holds the bytes 10 * p + 1 .. 10 * p + 4.
Chains ==
    UNION {{q \in [1 .. n -> 2 .. (n + 1)] :
               \A i, j \in 1 .. n : q[i] = q[j] => i = j} : n \in 1 .. MaxChain}

ChainBytes(p) == [j \in 1 .. OverflowSpace |-> 10 * p + j]

ChainDisk(order) ==
    [n \in 1 .. (Len(order) + 1) |->
        IF n = 1 THEN LeafRaw(<<>>)
        ELSE LET i == CHOOSE i \in DOMAIN order : order[i] = n
             IN  OverflowRaw(IF i < Len(order) THEN order[i + 1] ELSE 0, ChainBytes(n))]

\* OverflowScanner::read is called with any page of the chain as first_page
\* and any size up to one byte more than the chain holds.
OverflowInit ==
    /\ NoPager
    /\ returned = NotCalled
    /\ \E order \in Chains :
          /\ disk = ChainDisk(order)
          /\ \E start \in DOMAIN order, size \in 0 .. (Len(order) * OverflowSpace + 1) :
                given = [order |-> order, start |-> start,
                         first_page |-> order[start], size |-> size]

\* OverflowScanner::new(pager).read(first_page, size), on a pager that has
\* cached nothing yet.
ReadChain ==
    /\ returned = NotCalled
    /\ returned' = OverflowRead([n \in DOMAIN disk |-> NoEntry], {},
                                given.first_page, <<>>, given.size, 0)
    /\ FnFrame

OverflowNext == ReadChain

SpecOverflow == OverflowInit /\ [][OverflowNext]_vars

\* C26: OverflowScanner::read(first, size) reads the pages of the chain in
\* chain order from first, page k only if the pages before it gave fewer than
\* size bytes (none when size = 0), and stops when the bytes reach size or the
\* page just read has next = 0; the bytes returned are bytes 4..usable of the
\* pages read, concatenated; the next page returned is the successor of the
\* last page read, first itself if none was read, none after the terminator.
C26_OverflowRead ==
    returned # NotCalled
    => LET k == returned.reads
           order == given.order
           left == Len(order) - given.start + 1
       IN  /\ returned.tag = "ok"
           /\ k <= left
           /\ k > 0 => (k - 1) * OverflowSpace < given.size
           /\ Len(returned.buffer) >= given.size \/ k = left
           /\ returned.buffer
                = Concat([i \in 1 .. k |-> ChainBytes(order[given.start + i - 1])])
           /\ returned.next = (IF k = 0 THEN given.first_page
                               ELSE IF k = left THEN 0
                               ELSE order[given.start + k])
           /\ \A n \in DOMAIN disk :
                 returned.cache[n] # NoEntry
                 <=> \E i \in 1 .. k : n = order[given.start + i - 1]

\* Two pages of the chain 3 -> 2 -> 4 were read from page 3 on, for a size
\* that the first page alone did not reach, and page 4 is left.
C26_Witness ==
    /\ returned # NotCalled
    /\ given.order = <<3, 2, 4>>
    /\ given.start = 1
    /\ given.size = OverflowSpace + 1
    /\ returned.reads = 2
    /\ returned.buffer = ChainBytes(3) \o ChainBytes(2)
    /\ returned.next = 4


\* ------------------------------------------------- claims on cached kinds
\* A lookup of load, under either lock, that finds page n cached as the other
\* kind returns an error and touches neither the file nor the cache.
OtherKindRefused ==
    \A t \in Threads :
        (/\ pc[t] \in {"read_held", "write_held"}
         /\ CacheOf(t)[arg[t].n] # NoEntry
         /\ CacheOf(t)[arg[t].n].kind # arg[t].kind
         /\ pc'[t] # pc[t])
        => /\ pc'[t] = "idle"
           /\ ret'[t].tag = "kind"
           /\ input' = input
           /\ parseCount' = parseCount
           /\ pages' = pages
           /\ handed' = handed

\* The kind of a cached page stays the one it was first loaded as.
KindKept ==
    \A c \in CacheIds : \A n \in PageNos :
        pages[c][n] # NoEntry => pages'[c][n].kind = pages[c][n].kind

\* Every page handed out for n has the kind n is cached as.
ServedAsCached ==
    \A n \in PageNos : \A h \in handed[n] : \A t \in Threads :
        CacheOf(t)[n].kind = h.kind

\* C27: a page number cached as one kind is never served as the other:
\* read_page(n) after read_overflow(n) loaded n returns an error without
\* reading or parsing the file and leaves the cache entry as it is, and so
\* does read_overflow(n) after read_page(n); the kind stored for n is that
\* of the call that loaded it first.
C27_KindFixedByFirstLoad == []ServedAsCached /\ [][OtherKindRefused /\ KindKept]_vars

\* Page 1, a B-tree leaf, was loaded by read_overflow and nothing else is
\* cached; the read_page of the other thread was refused at the first lookup.
C27_Witness ==
    /\ \A t \in Threads : CacheOf(t)[1].kind = "Overflow"
    /\ \A t \in Threads : \A n \in PageNos \ {1} : CacheOf(t)[n] = NoEntry
    /\ failed = {}
    /\ ret["t1"] = [tag |-> "ok", site |-> "load"]
    /\ ret["t2"] = [tag |-> "kind", site |-> "hit"]


\* ------------------------------------------- claims on the cursor's payload
\* The overflow pages whose bytes the cursor has taken: those of the chain
\* before next_overflow_page, all of them once the chain is at its end.
PagesTaken ==
    IF cursor.next_overflow_page = 0 THEN Len(disk) - 1
    ELSE cursor.next_overflow_page - 2

\* C28: in every state of a cursor the payload is the local payload of the
\* leaf cell followed by the whole payloads of the overflow pages that come
\* before next_overflow_page in the chain, in chain order: over any sequence
\* of field calls no page is appended twice and none is skipped.
C28_PayloadIsChainPrefix ==
    cursor # NoCursor
    => /\ PagesTaken \in 0 .. (Len(disk) - 1)
       /\ cursor.payload
            = SubSeq(RowBytes(row), 1, row.local)
              \o Concat([j \in 1 .. PagesTaken |-> parse_overflow_page(disk[j + 1]).payload])

\* One call took the first overflow page and a later call the next two.
C28_Witness ==
    /\ cursor # NoCursor
    /\ prevCall.k = 0
    /\ prevCall.reads = 1
    /\ lastCall.k = 1
    /\ lastCall.reads = 2
    /\ lastCall.preNext = 3
    /\ cursor.next_overflow_page = 0
    /\ Len(cursor.payload) = row.local + 3 * OverflowSpace


\* A field call in which the read of an overflow page fails returns the
\* error and leaves the cursor as it was.
FailedReadKeepsCursor ==
    (cursor # NoCursor /\ (failNext' # failNext \/ lastCall'.res.tag = "Err"))
    => /\ lastCall'.res.tag = "Err"
       /\ cursor'.payload = cursor.payload
       /\ cursor'.next_overflow_page = cursor.next_overflow_page

\* C29: if the read of any overflow page fails during field(n), field
\* returns the error, and payload and next_overflow_page are exactly as before
\* the call: the bytes of the pages read before the failure are not appended,
\* and a later call walks the chain again from the same page.
C29_FailedReadRollsBack == [][FailedReadKeepsCursor]_vars

\* The read of the second page of a walk failed after the first was read;
\* the same call made again walked from the same page and returned the text.
C29_Witness ==
    /\ cursor # NoCursor
    /\ prevCall.k = 1
    /\ prevCall.res.tag = "Err"
    /\ prevCall.reads >= 2
    /\ lastCall.k = 1
    /\ lastCall.preNext = prevCall.preNext
    /\ lastCall.prePayload = prevCall.prePayload
    /\ lastCall.res.tag = "Some"
    /\ lastCall.reads >= 2


\* ------------------------------------------- claims on the end of the scan
\* A scanner whose last call returned None has the root alone on its stack.
RootAloneAtEnd ==
    \A s \in Scanners :
        last[s] = "end"
        => /\ Len(page_stack[s]) = 1
           /\ page_stack[s][1].page.n = initial_page

\* A call on a scanner whose last call returned None returns None again: it
\* yields no cursor, reads and pushes no page, and leaves the root on the stack.
EndIsFinal ==
    \A s \in Scanners :
        (last[s] = "end" /\ page_stack'[s] # page_stack[s])
        => /\ last'[s] = "end"
           /\ yielded' = yielded
           /\ visited' = visited
           /\ pages' = pages
           /\ failNext' = failNext
           /\ errored' = errored
           /\ Len(page_stack'[s]) = 1
           /\ page_stack'[s][1].page = page_stack[s][1].page

\* C30: once next_record has returned None on a scanner, every later call on
\* it returns None, yields no cursor, reads no page and leaves the page stack
\* at depth 1 holding the root; the traversal never starts again.
C30_ExhaustedStaysExhausted == []RootAloneAtEnd /\ [][EndIsFinal]_vars

\* A scanner over a tree with an interior root has yielded every row,
\* returned None, and was called again.
C30_Witness ==
    \E s \in Scanners :
        /\ last[s] = "end"
        /\ tree.depth > 1
        /\ fault.kind = "none"
        /\ Len(yielded[s]) = NumRows(tree)
        /\ page_stack[s][1].cell > Len(PageOf(page_stack[s][1].page).cells) + 2


\* ----------------------------------------------------------- SQL tokenizer
\* A text is a sequence of characters, each a string of length one.
Lowers ==
    <<"a", "b", "c", "d", "e", "f", "g", "h", "i", "j", "k", "l", "m",
      "n", "o", "p", "q", "r", "s", "t", "u", "v", "w", "x", "y", "z">>
Uppers ==
    <<"A", "B", "C", "D", "E", "F", "G", "H", "I", "J", "K", "L", "M",
      "N", "O", "P", "Q", "R", "S", "T", "U", "V", "W", "X", "Y", "Z">>
Digits == {"0", "1", "2", "3", "4", "5", "6", "7", "8", "9"}

is_whitespace(c) == c = " "
is_alphabetic(c) == c \in Range(Lowers) \cup Range(Uppers)
is_alphanumeric(c) == is_alphabetic(c) \/ c \in Digits


to_lowercase(c) ==
    IF c \in Range(Uppers) THEN Lowers[CHOOSE i \in DOMAIN Uppers : Uppers[i] = c] ELSE c

\* chars.next_if(|&cc| cc.is_alphanumeric() || cc == '_'): the index after
\* the last character of the word that starts before i.
RECURSIVE WordEnd(_, _)
WordEnd(in, i) ==
    IF i <= Len(in) /\ (is_alphanumeric(in[i]) \/ in[i] = "_")
    THEN WordEnd(in, i + 1) ELSE i

Punctuation(t) == [t |-> t, ident |-> <<>>]
Identifier(ident) == [t |-> "Identifier", ident |-> ident]

\* The match on the lower-cased word: a keyword or an identifier.
WordToken(ident) ==
    CASE ident = <<"c", "r", "e", "a", "t", "e">> -> Punctuation("Create")
      [] ident = <<"t", "a", "b", "l", "e">> -> Punctuation("Table")
      [] ident = <<"s", "e", "l", "e", "c", "t">> -> Punctuation("Select")
      [] ident = <<"a", "s">> -> Punctuation("As")
      [] ident = <<"f", "r", "o", "m">> -> Punctuation("From")
      [] OTHER -> Identifier(ident)

\* tokenize(input), from character i on with the tokens found so far.
RECURSIVE TokenizeFrom(_, _, _)
TokenizeFrom(in, i, tokens) ==
    IF i > Len(in) THEN [tag |-> "ok", tokens |-> tokens]
    ELSE LET c == in[i]
             j == WordEnd(in, i + 1)
         IN  CASE c = "(" -> TokenizeFrom(in, i + 1, Append(tokens, Punctuation("LPar")))
               [] c = ")" -> TokenizeFrom(in, i + 1, Append(tokens, Punctuation("RPar")))
               [] c = "*" -> TokenizeFrom(in, i + 1, Append(tokens, Punctuation("Star")))
               [] c = "," -> TokenizeFrom(in, i + 1, Append(tokens, Punctuation("Comma")))
               [] c = ";" ->
                    TokenizeFrom(in, i + 1, Append(tokens, Punctuation("SemiColon")))
               [] is_whitespace(c) -> TokenizeFrom(in, i + 1, tokens)
               [] is_alphabetic(c) ->
                    TokenizeFrom(in, j,
                        Append(tokens,
                               WordToken([k \in 1 .. (j - i) |-> to_lowercase(in[i + k - 1])])))
               [] OTHER -> [tag |-> "err", tokens |-> <<>>]

tokenize(in) == TokenizeFrom(in, 1, <<>>)


\* -------------------------------------------------------------- SQL parser
\* ParserState { tokens, pos }: every parsing method is an operator of the
\* tokens and the position that gives the outcome, the value parsed and the
\* position after it.
NoToken == [t |-> "None", ident |-> <<>>]
Parsed(value, pos) == [tag |-> "ok", value |-> value, pos |-> pos]
Bailed(pos) == [tag |-> "err", value |-> <<>>, pos |-> pos]

\* self.tokens.get(self.pos)
peak_next_token(tokens, pos) == IF pos < Len(tokens) THEN tokens[pos + 1] ELSE NoToken

NextTokenIsNever(tokens, pos, expected) == FALSE

next_token_is(tokens, pos, expected) == peak_next_token(tokens, pos) = Punctuation(expected)

\* self.pos += 1
advance(pos) == pos + 1

\* expect_matching over next_token: the position moves on whenever there is
\* a token, matching or not.
expect_eq(tokens, pos, expected) ==
    IF pos >= Len(tokens) THEN Bailed(pos)
    ELSE IF tokens[pos + 1] = Punctuation(expected)
    THEN Parsed(tokens[pos + 1], pos + 1) ELSE Bailed(pos + 1)

expect_identifier(tokens, pos) ==
    IF pos >= Len(tokens) THEN Bailed(pos)
    ELSE IF tokens[pos + 1].t = "Identifier"
    THEN Parsed(tokens[pos + 1].ident, pos + 1) ELSE Bailed(pos + 1)

parse_expr(tokens, pos) ==
    LET name == expect_identifier(tokens, pos)
    IN  IF name.tag # "ok" THEN name
        ELSE Parsed([name |-> name.value], name.pos)

NoAlias == [some |-> FALSE, name |-> <<>>]

parse_expr_result_column(tokens, pos) ==
    LET expr == parse_expr(tokens, pos)
        alias == expect_identifier(tokens, advance(expr.pos))
    IN  IF expr.tag # "ok" THEN expr
        ELSE IF ~next_token_is(tokens, expr.pos, "As")
        THEN Parsed([star |-> FALSE, expr |-> expr.value, alias |-> NoAlias], expr.pos)
        ELSE IF alias.tag # "ok" THEN alias
        ELSE Parsed([star |-> FALSE, expr |-> expr.value,
                     alias |-> [some |-> TRUE, name |-> alias.value]], alias.pos)

Star == [star |-> TRUE, expr |-> [name |-> <<>>], alias |-> NoAlias]

parse_result_column(tokens, pos) ==
    IF peak_next_token(tokens, pos) = NoToken THEN Bailed(pos)
    ELSE IF peak_next_token(tokens, pos) = Punctuation("Star")
    THEN Parsed(Star, advance(pos))
    ELSE parse_expr_result_column(tokens, pos)

\* The loop of parse_result_columns, entered with the columns parsed so far.
RECURSIVE ResultColumnsLoop(_, _, _)
ResultColumnsLoop(tokens, pos, result_coluns) ==
    LET col == parse_result_column(tokens, advance(pos))
    IN  IF ~next_token_is(tokens, pos, "Comma") THEN Parsed(result_coluns, pos)
        ELSE IF col.tag # "ok" THEN col
        ELSE ResultColumnsLoop(tokens, col.pos, Append(result_coluns, col.value))

parse_result_columns(tokens, pos) ==
    LET first == parse_result_column(tokens, pos)
    IN  IF first.tag # "ok" THEN first
        ELSE ResultColumnsLoop(tokens, first.pos, <<first.value>>)

parse_select_from(tokens, pos) == expect_identifier(tokens, pos)

parse_select(tokens, pos) ==
    LET kw == expect_eq(tokens, pos, "Select")
        result_columns == parse_result_columns(tokens, kw.pos)
        from_kw == expect_eq(tokens, result_columns.pos, "From")
        from == parse_select_from(tokens, from_kw.pos)
    IN  IF kw.tag # "ok" THEN kw
        ELSE IF result_columns.tag # "ok" THEN result_columns
        ELSE IF from_kw.tag # "ok" THEN from_kw
        ELSE IF from.tag # "ok" THEN from
        ELSE Parsed([kind |-> "Select",
                     core |-> [result_columns |-> result_columns.value,
                               from |-> from.value]], from.pos)

parse_type(tokens, pos) ==
    LET type_name == expect_identifier(tokens, pos)
    IN  IF type_name.tag # "ok" THEN type_name
        ELSE CASE type_name.value = <<"i", "n", "t", "e", "g", "e", "r">> ->
                    Parsed("Integer", type_name.pos)
               [] type_name.value = <<"r", "e", "a", "l">> -> Parsed("Real", type_name.pos)
               [] type_name.value = <<"b", "l", "o", "b">> -> Parsed("Blob", type_name.pos)
               [] type_name.value \in {<<"t", "e", "x", "t">>,
                                       <<"s", "t", "r", "i", "n", "g">>} ->
                    Parsed("Text", type_name.pos)
               [] OTHER -> Bailed(type_name.pos)

parse_column_def(tokens, pos) ==
    LET name == expect_identifier(tokens, pos)
        col_type == parse_type(tokens, name.pos)
    IN  IF name.tag # "ok" THEN name
        ELSE IF col_type.tag # "ok" THEN col_type
        ELSE Parsed([name |-> name.value, col_type |-> col_type.value], col_type.pos)

\* The loop of parse_create_table, entered with the columns parsed so far.
RECURSIVE ColumnDefsLoop(_, _, _)
ColumnDefsLoop(tokens, pos, columns) ==
    LET col == parse_column_def(tokens, advance(pos))
    IN  IF ~next_token_is(tokens, pos, "Comma") THEN Parsed(columns, pos)
        ELSE IF col.tag # "ok" THEN col
        ELSE ColumnDefsLoop(tokens, col.pos, Append(columns, col.value))

parse_create_table(tokens, pos) ==
    LET create == expect_eq(tokens, pos, "Create")
        table == expect_eq(tokens, create.pos, "Table")
        name == expect_identifier(tokens, table.pos)
        lpar == expect_eq(tokens, name.pos, "LPar")
        first == parse_column_def(tokens, lpar.pos)
        columns == ColumnDefsLoop(tokens, first.pos, <<first.value>>)
        rpar == expect_eq(tokens, columns.pos, "RPar")
    IN  IF create.tag # "ok" THEN create
        ELSE IF table.tag # "ok" THEN table
        ELSE IF name.tag # "ok" THEN name
        ELSE IF lpar.tag # "ok" THEN lpar
        ELSE IF first.tag # "ok" THEN first
        ELSE IF columns.tag # "ok" THEN columns
        ELSE IF rpar.tag # "ok" THEN rpar
        ELSE Parsed([kind |-> "CreateTable", name |-> name.value,
                     columns |-> columns.value], rpar.pos)

\* ParserState::parse_statement on ParserState::new(tokens).
parse_statement(tokens) ==
    CASE peak_next_token(tokens, 0) = Punctuation("Select") -> parse_select(tokens, 0)
      [] peak_next_token(tokens, 0) = Punctuation("Create") -> parse_create_table(tokens, 0)
      [] OTHER -> Bailed(0)


\* The statements parsed.  A result column is `*`, a column, or a column
\* with an alias; names are written with capitals, digits and underscores;
\* keywords are written in lower case or in mixed case, the list separator
\* with or without a space, the statement with or without a final `;`.
Sp == <<" ">>
ColumnNames == {<<"k">>, <<"C", "o", "l", "_", "1">>}
AliasNames == {<<"x">>, <<"F", "i", "r", "s", "t">>}
TableNames == {<<"t">>, <<"T", "a", "b", "l", "e", "N", "a", "m", "e", "_", "1">>}
TypeNames ==
    {<<"i", "n", "t", "e", "g", "e", "r">>, <<"R", "e", "a", "l">>, <<"b", "l", "o", "b">>,
     <<"T", "E", "X", "T">>, <<"s", "t", "r", "i", "n", "g">>}

ResultChoices ==
    {[star |-> TRUE, name |-> <<>>, as |-> FALSE, alias |-> <<>>]}
    \cup [star : {FALSE}, name : ColumnNames, as : {FALSE}, alias : {<<>>}]
    \cup [star : {FALSE}, name : {<<"k">>}, as : {TRUE}, alias : AliasNames]

Keyword(mixed, lower, other) == IF mixed THEN other ELSE lower

ResultText(g, c) ==
    IF c.star THEN <<"*">>
    ELSE IF c.as
    THEN c.name \o Sp \o Keyword(g.mixed, <<"a", "s">>, <<"A", "s">>) \o Sp \o c.alias
    ELSE c.name

RECURSIVE Listed(_, _, _, _)
Listed(g, items, text(_, _), i) ==
    IF i > Len(items) THEN <<>>
    ELSE (IF i = 1 THEN <<>> ELSE IF g.mixed THEN <<",">> ELSE <<",", " ">>)
         \o text(g, items[i]) \o Listed(g, items, text, i + 1)

SelectText(g) ==
    Keyword(g.mixed, <<"s", "e", "l", "e", "c", "t">>, <<"S", "e", "L", "e", "c", "t">>)
    \o Sp \o Listed(g, g.columns, ResultText, 1) \o Sp
    \o Keyword(g.mixed, <<"f", "r", "o", "m">>, <<"F", "r", "o", "M">>)
    \o Sp \o g.table \o (IF g.mixed THEN <<";">> ELSE <<>>)

ColumnText(g, c) == c.name \o Sp \o c.type

CreateText(g) ==
    Keyword(g.mixed, <<"c", "r", "e", "a", "t", "e">>, <<"C", "R", "E", "A", "T", "E">>)
    \o Sp \o Keyword(g.mixed, <<"t", "a", "b", "l", "e">>, <<"T", "a", "b", "l", "e">>)
    \o Sp \o g.table \o <<"(">> \o Listed(g, g.columns, ColumnText, 1) \o <<")">>

SqlInit ==
    /\ NoFile
    /\ returned = NotCalled
    /\ \E mixed \in BOOLEAN, table \in TableNames :
          \/ \E n \in 1 .. MaxResultColumns :
                \E columns \in [1 .. n -> ResultChoices] :
                   given = [kind |-> "Select", mixed |-> mixed, table |-> table,
                            columns |-> columns]
          \/ \E n \in 1 .. MaxColumns :
                \E columns \in [1 .. n -> [name : ColumnNames, type : TypeNames]] :
                   given = [kind |-> "CreateTable", mixed |-> mixed, table |-> table,
                            columns |-> columns]

\* parse_statement(input): tokenizer::tokenize(input)?
Tokenize ==
    /\ returned = NotCalled
    /\ returned' = [tag |-> "tokens",
                    out |-> tokenize(IF given.kind = "Select" THEN SelectText(given)
                                     ELSE CreateText(given))]
    /\ FnFrame

\* parse_statement(input): ParserState::new(tokens).parse_statement()?
ParseStatement ==
    /\ returned.tag = "tokens"
    /\ returned' = [tag |-> "parsed",
                    out |-> IF returned.out.tag = "ok"
                            THEN parse_statement(returned.out.tokens)
                            ELSE Bailed(0)]
    /\ FnFrame

SqlNext == Tokenize \/ ParseStatement

SpecSql == SqlInit /\ [][SqlNext]_vars

LowerCased(word) == [i \in DOMAIN word |-> to_lowercase(word[i])]

TypeOfName(word) ==
    CASE LowerCased(word) = <<"i", "n", "t", "e", "g", "e", "r">> -> "Integer"
      [] LowerCased(word) = <<"r", "e", "a", "l">> -> "Real"
      [] LowerCased(word) = <<"b", "l", "o", "b">> -> "Blob"
      [] OTHER -> "Text"

tables_metadata == <<[name |-> "t", columns |-> <<"k", "v", "w">>, first_page |-> initial_page]>>

\* iter().enumerate().find(|(_, c)| c.name == col.name): the index of the
\* first column of that name, counted from 0.
FindFromOne(names, name) ==
    IF \E i \in DOMAIN names : names[i] = name
    THEN [found |-> TRUE, index |-> CHOOSE i \in DOMAIN names :
                                        names[i] = name /\ \A j \in 1 .. (i - 1) : names[j] # name]
    ELSE [found |-> FALSE, index |-> 0]

find(names, name) ==
    IF \E i \in DOMAIN names : names[i] = name
    THEN [found |-> TRUE, index |-> (CHOOSE i \in DOMAIN names :
                                        names[i] = name /\ \A j \in 1 .. (i - 1) : names[j] # name) - 1]
    ELSE [found |-> FALSE, index |-> 0]

\* The loop of compile_select over the result columns: `*` pushes every
\* index of the table, a column the index of its name, an unknown name is
\* an error.
RECURSIVE SelectedColumns(_, _, _)
SelectedColumns(table, result_columns, columns) ==
    IF result_columns = <<>> THEN [tag |-> "ok", columns |-> columns]
    ELSE LET res_col == Head(result_columns)
             at == find(table.columns, res_col.name)
         IN  IF res_col.star
             THEN SelectedColumns(table, Tail(result_columns),
                                  columns \o [i \in 1 .. Len(table.columns) |-> i - 1])
             ELSE IF ~at.found THEN [tag |-> "err", columns |-> <<>>]
             ELSE SelectedColumns(table, Tail(result_columns), Append(columns, at.index))

\* Planner::compile_select and SeqScan::new: the operator, with a row buffer
\* of one Null per field, or the error for an unknown table or column.
compile_select(select) ==
    LET found == \E i \in DOMAIN tables_metadata : tables_metadata[i].name = select.from
        table == tables_metadata[CHOOSE i \in DOMAIN tables_metadata :
                                     tables_metadata[i].name = select.from]
        columns == SelectedColumns(table, select.result_columns, <<>>)
    IN  IF ~found \/ columns.tag # "ok"
        THEN [tag |-> "err", fields |-> <<>>, row_buffer |-> <<>>, rows |-> <<>>,
              result |-> "none"]
        ELSE [tag |-> "SeqScan", fields |-> columns.columns,
              row_buffer |-> [i \in DOMAIN columns.columns |-> Some("Null", 0, <<>>)],
              rows |-> <<>>, result |-> "none"]

\* The statements compiled: up to MaxSelected result columns, each `*`, the
\* first or the last column of the table or a name it does not have, from t
\* or from a table that does not exist.
Selects ==
    LET choices == {[star |-> TRUE, name |-> ""]}
                   \cup [star : {FALSE}, name : {"k", "w", "z"}]
    IN  UNION {[result_columns : [1 .. n -> choices], from : {"t", "u"}] :
                   n \in 1 .. MaxSelected}

EngineInit ==
    /\ tree \in Shapes
    /\ fault \in {f \in Faults(tree) : f.kind \in {"none", "badRow", "flaky"}}
    /\ disk = TreeDisk(tree, fault)
    /\ failNext = IF fault.kind = "flaky" THEN {fault.at} ELSE {}
    /\ pages = [c \in CacheIds |-> [n \in 1 .. NumPages(tree) |-> NoEntry]]
    /\ pagesLock = [c \in CacheIds |-> [readers |-> {}, writer |-> NoThread]]
    /\ input = [owner |-> NoThread, pos |-> 0]
    /\ pc = [t \in Threads |-> "idle"]
    /\ arg = [t \in Threads |-> NoArg]
    /\ buf = [t \in Threads |-> -1]
    /\ ret = [t \in Threads |-> NoRet]
    /\ parseCount = [n \in PageNos |-> 0]
    /\ handed = [n \in PageNos |-> {}]
    /\ failed = {}
    /\ page_stack = [s \in Scanners |-> <<>>]
    /\ yielded = [s \in Scanners |-> <<>>]
    /\ visited = [s \in Scanners |-> <<>>]
    /\ last = [s \in Scanners |-> "new"]
    /\ errored = [s \in Scanners |-> FALSE]
    /\ ioHit = [s \in Scanners |-> FALSE]
    /\ row = <<>>
    /\ cursor = NoCursor
    /\ lastCall = NoCall
    /\ prevCall = NoCall
    /\ given \in Selects
    /\ returned = NotCalled

\* Planner::compile on the Select statement.
Compile ==
    /\ returned = NotCalled
    /\ returned' = compile_select(given)
    /\ UNCHANGED <<pagerVars, scanVars, cursorVars, given>>

\* The scanner of the operator.
scanner == "s1"

\* SeqScan::next_row while next_record reads the root page.
NextRowLoadRoot ==
    /\ returned.tag = "SeqScan"
    /\ LoadRoot(scanner)
    /\ returned' = [returned EXCEPT !.result = IF last'[scanner] = "err" THEN "Err" ELSE @]
    /\ UNCHANGED <<cursorVars, given>>

\* SeqScan::next_row: one turn of the loop of next_record and, when it
\* returns, the rest of next_row: None for None, the error for an error, and
\* for a cursor the row buffer filled with owned_field(n) for each of the
\* fields.  The rows of the table have no overflow pages.
NextRow ==
    LET c == scannerPager[scanner].pages
        stk == page_stack[scanner]
        e == NextElem(stk[Len(stk)])
        filled == [i \in DOMAIN returned.fields |->
                      field(e.cursor, pages[c], failNext, returned.fields[i]).res]
    IN  /\ returned.tag = "SeqScan"
        /\ Advance(scanner)
        /\ returned' =
              CASE e.elem = "Cursor" ->
                     [returned EXCEPT !.row_buffer = filled, !.rows = Append(@, filled),
                                      !.result = "Some"]
                [] e.elem = "None" /\ Len(stk) <= 1 -> [returned EXCEPT !.result = "None"]
                [] e.elem = "Err" -> [returned EXCEPT !.result = "Err"]
                [] e.elem = "Page" /\ Load(pages[c], failNext, e.page, "Page").tag # "ok" ->
                     [returned EXCEPT !.result = "Err"]
                [] OTHER -> returned
        /\ UNCHANGED <<cursorVars, given>>

EngineNext == Compile \/ NextRowLoadRoot \/ NextRow

SpecEngine == EngineInit /\ [][EngineNext]_vars


\* The value of column n (counted from 0) of the row with the given ROWID.
ColumnValue(rowid, n) ==
    CASE n = 0 -> Some("Int", rowid, <<>>)
      [] n = 1 -> Some("String", 0, <<96 + rowid>>)
      [] n = 2 -> Some("Int", 100 + rowid, <<>>)
      [] OTHER -> None

\* The declaration indexes of the selected columns, `*` standing for all.
RECURSIVE DeclarationIndexes(_)
DeclarationIndexes(result_columns) ==
    IF result_columns = <<>> THEN <<>>
    ELSE (IF Head(result_columns).star THEN <<0, 1, 2>>
          ELSE <<CASE Head(result_columns).name = "k" -> 0
                   [] Head(result_columns).name = "v" -> 1
                   [] OTHER -> 2>>)
         \o DeclarationIndexes(Tail(result_columns))

\* C22: for a SELECT over a table, the rows next_row has yielded are the
\* rows the scanner has yielded, in the scanner's order, each as one value per
\* selected column: position i holds the record field at the declaration
\* index of the i-th selected column, `*` standing for all columns in
\* declaration order; and next_row returns None exactly when the scanner does.
C22_SeqScanRows ==
    (/\ returned # NotCalled
     /\ given.from = "t"
     /\ \A i \in DOMAIN given.result_columns : given.result_columns[i].name # "z")
    => LET wanted == DeclarationIndexes(given.result_columns)
       IN  /\ returned.tag = "SeqScan"
           /\ returned.fields = wanted
           /\ Len(returned.row_buffer) = Len(wanted)
           /\ Len(returned.rows) = Len(yielded[scanner])
           /\ \A r \in DOMAIN returned.rows :
                 returned.rows[r]
                   = [i \in DOMAIN wanted |-> ColumnValue(yielded[scanner][r], wanted[i])]
           /\ returned.result = "Some" => returned.row_buffer = returned.rows[Len(returned.rows)]
           /\ returned.result = "None" <=> last[scanner] = "end"
           /\ returned.result = "Some" <=> last[scanner] = "cursor"

\* `SELECT w, k FROM t` over a table of two leaves has yielded "101|1" and
\* "102|2" and more, and then None.
C22_Witness ==
    /\ returned # NotCalled
    /\ given = [result_columns |-> <<[star |-> FALSE, name |-> "w"],
                                     [star |-> FALSE, name |-> "k"]>>, from |-> "t"]
    /\ tree.depth = 2
    /\ fault.kind = "none"
    /\ Len(returned.rows) = NumRows(tree)
    /\ Len(returned.rows) >= 2
    /\ returned.rows[1] = <<Some("Int", 101, <<>>), Some("Int", 1, <<>>)>>
    /\ returned.rows[2] = <<Some("Int", 102, <<>>), Some("Int", 2, <<>>)>>
    /\ returned.result = "None"

\* ------------------------------------------------------------ termination
\* One thread scans a table with Scanner::next_record while another reads an
\* overflow chain with OverflowScanner::read, one turn of the loop at a time,
\* both through clones of one pager.
\*
\* A chain of `len` overflow pages after the pages of the table: each page
\* links to the next, the last one to page `back` of the chain (a cycle) or,
\* with back = 0, to nothing.  The read asks for `size` bytes, up to more than
\* MaxLaps times what the pages of the chain hold.
NoChain == [len |-> 0, back |-> 0, size |-> 0]

LoopChains ==
    {ch \in [len : 1 .. MaxChain, back : 0 .. MaxChain,
             size : 0 .. (MaxLaps * MaxChain * OverflowSpace + 1)] :
        /\ ch.back <= ch.len
        /\ ch.size <= MaxLaps * ch.len * OverflowSpace + 1}

\* The table the chain lies behind: a root, two interior pages, four leaves.
LoopTree == [depth |-> 3, fan |-> 1, rows |-> 1]

ChainPage(sh, i) == NumPages(sh) + i

LoopDisk(sh, ch) ==
    TreeDisk(sh, NoFault)
    \o [i \in 1 .. ch.len |->
          OverflowRaw(IF i < ch.len THEN ChainPage(sh, i + 1)
                      ELSE IF ch.back = 0 THEN 0
                      ELSE ChainPage(sh, ch.back),
                      ChainBytes(i))]

TerminationInit ==
    /\ \/ /\ tree \in Shapes
          /\ fault \in Faults(tree)
          /\ given = NoChain
          /\ disk = TreeDisk(tree, fault)
       \/ /\ tree = LoopTree
          /\ fault = NoFault
          /\ given \in LoopChains
          /\ disk = LoopDisk(tree, given)
    /\ failNext = IF fault.kind = "flaky" THEN {fault.at} ELSE {}
    /\ pages = [c \in CacheIds |-> [n \in DOMAIN disk |-> NoEntry]]
    /\ pagesLock = [c \in CacheIds |-> [readers |-> {}, writer |-> NoThread]]
    /\ input = [owner |-> NoThread, pos |-> 0]
    /\ pc = [t \in Threads |-> "idle"]
    /\ arg = [t \in Threads |-> NoArg]
    /\ buf = [t \in Threads |-> -1]
    /\ ret = [t \in Threads |-> NoRet]
    /\ parseCount = [n \in PageNos |-> 0]
    /\ handed = [n \in PageNos |-> {}]
    /\ failed = {}
    /\ page_stack = [s \in Scanners |-> <<>>]
    /\ yielded = [s \in Scanners |-> <<>>]
    /\ visited = [s \in Scanners |-> <<>>]
    /\ last = [s \in Scanners |-> "new"]
    /\ errored = [s \in Scanners |-> FALSE]
    /\ ioHit = [s \in Scanners |-> FALSE]
    /\ row = <<>>
    /\ cursor = NoCursor
    /\ lastCall = NoCall
    /\ prevCall = NoCall
    /\ returned = NotCalled

ReadFrame ==
    UNCHANGED <<disk, pagesLock, input, pc, arg, buf, ret, parseCount, handed,
                failed, tree, fault, page_stack, yielded, visited, last, errored,
                ioHit, cursorVars, given>>

\* OverflowScanner::read, lines 323-324: next_page = Some(first_page) and an
\* empty buffer; the first page of the chain is asked for.
ReadCall ==
    /\ given # NoChain
    /\ returned = NotCalled
    /\ returned' = [tag |-> "reading", next |-> ChainPage(tree, 1),
                    buffer |-> <<>>, reads |-> 0]
    /\ UNCHANGED <<pages, failNext>>
    /\ ReadFrame

\* Lines 326-334: the loop condition, then either one turn of the loop body
\* (read_overflow(next)?, next_page = overflow.next, the payload appended) or
\* the return of (next_page, buffer).
ReadTurn ==
    LET c == cursorPager.pages
        r == Load(pages[c], failNext, returned.next, "Overflow")
        overflow == parse_overflow_page(disk[r.entry.n])
    IN  /\ returned # NotCalled
        /\ returned.tag = "reading"
        /\ IF KeepReading(Len(returned.buffer), given.size) /\ returned.next # 0
           THEN /\ pages' = [pages EXCEPT ![c] = r.cache]
                /\ failNext' = r.failNext
                /\ returned' =
                      IF r.tag = "ok"
                      THEN [tag |-> "reading", next |-> overflow.next,
                            buffer |-> returned.buffer \o overflow.payload,
                            reads |-> returned.reads + 1]
                      ELSE [tag |-> r.tag, next |-> returned.next,
                            buffer |-> <<>>, reads |-> returned.reads + 1]
           ELSE /\ returned' = [returned EXCEPT !.tag = "ok"]
                /\ UNCHANGED <<pages, failNext>>
        /\ ReadFrame

TerminationNext ==
    \/ LoadRoot(scanner) /\ UNCHANGED <<cursorVars, fnVars>>
    \/ Advance(scanner) /\ UNCHANGED <<cursorVars, fnVars>>
    \/ ReadCall
    \/ ReadTurn

\* Each of the two threads is a sequential loop: a thread that can take its
\* next step is eventually scheduled to take it (weak fairness).
ScanStep == (LoadRoot(scanner) \/ Advance(scanner)) /\ UNCHANGED <<cursorVars, fnVars>>

ReadStep == ReadCall \/ ReadTurn

\* The states in which ScanStep can change the state: an empty stack (unless
\* the initial page does not parse and the error has been returned already,
\* when a further call changes nothing), or a top page that calls still
\* advance on.
ScanPending ==
    IF page_stack[scanner] = <<>>
    THEN ~(fault.kind = "badPage" /\ fault.at = initial_page /\ last[scanner] = "err")
    ELSE LET top == page_stack[scanner][Len(page_stack[scanner])]
         IN  top.cell < Len(PageOf(top.page).cells) + 2 + MaxIdleCalls

\* Weak fairness of ScanStep, with its enabling condition written out.
ScanFair == []<>(~ScanPending) \/ []<><<ScanStep>>_vars

SpecTermination ==
    TerminationInit /\ [][TerminationNext]_vars /\ ScanFair /\ WF_vars(ReadStep)

\* ------------------------------------------------- claims on termination
\* Every page read for the table succeeds: the file has no page that fails
\* to parse and no read that fails.
ReadsSucceed == fault.kind \in {"none", "badRow"}

StackWithinHeight == Len(page_stack[scanner]) <= tree.depth

\* Every read_overflow of the call in progress added usable_page_size - 4
\* bytes, and was made only while the bytes before it were fewer than size.
EachReadAddsBytes ==
    (returned # NotCalled /\ returned.tag \in {"reading", "ok"})
    => /\ Len(returned.buffer) = returned.reads * OverflowSpace
       /\ returned.reads > 0 => (returned.reads - 1) * OverflowSpace < given.size

\* C31: on a table B-tree (finite, acyclic) whose page reads all succeed, the
\* calls of next_record all return and one of them returns None, and the page
\* stack is never deeper than the tree is high; a call of
\* OverflowScanner::read returns for every size, whether the chain ends or
\* runs in a cycle, each page read adding usable_page_size - 4 > 0 bytes.
C31_Terminates ==
    /\ []StackWithinHeight
    /\ []EachReadAddsBytes
    /\ []((ReadsSucceed /\ last[scanner] = "new") => <>(last[scanner] = "end"))
    /\ []((given # NoChain /\ returned = NotCalled)
             => <>(returned # NotCalled /\ returned.tag = "ok"))

\* The scan of the seven pages has returned its four rows and then None, and
\* a read of 17 bytes from a cycle of two pages has returned after five reads,
\* the chain not at an end.
C31_Witness ==
    /\ given = [len |-> 2, back |-> 1, size |-> 4 * OverflowSpace + 1]
    /\ returned # NotCalled
    /\ returned.tag = "ok"
    /\ returned.reads = 5
    /\ returned.next # 0
    /\ tree.depth = 3
    /\ last[scanner] = "end"
    /\ Len(visited[scanner]) = NumPages(tree)
    /\ Len(yielded[scanner]) = NumRows(tree)

\* ------------------------------------------------- the pager under fairness
\* The threads share the pager, each making up to MaxCalls calls of
\* read_page / read_overflow (`given` holds the calls each has left), and are
\* scheduled fairly: a thread that can take its next step inside load is
\* eventually scheduled to take it.  No thread has to call.
FairInit ==
    /\ disk = PagerDisk
    /\ pages = [c \in CacheIds |-> [n \in PageNos |-> NoEntry]]
    /\ pagesLock = [c \in CacheIds |-> [readers |-> {}, writer |-> NoThread]]
    /\ input = [owner |-> NoThread, pos |-> 0]
    /\ pc = [t \in Threads |-> "idle"]
    /\ arg = [t \in Threads |-> NoArg]
    /\ buf = [t \in Threads |-> -1]
    /\ ret = [t \in Threads |-> NoRet]
    /\ parseCount = [n \in PageNos |-> 0]
    /\ handed = [n \in PageNos |-> {}]
    /\ failed = {}
    /\ tree = [depth |-> 0, fan |-> 0, rows |-> 0]
    /\ fault = [kind |-> "none", at |-> 0]
    /\ failNext = {}
    /\ page_stack = <<>>
    /\ yielded = <<>>
    /\ visited = <<>>
    /\ last = <<>>
    /\ errored = <<>>
    /\ ioHit = <<>>
    /\ row = <<>>
    /\ cursor = <<>>
    /\ lastCall = <<>>
    /\ prevCall = <<>>
    /\ given = [t \in Threads |-> MaxCalls]
    /\ returned = <<>>

\* A call of a thread that has calls left.
CallWithinBudget(t) ==
    /\ given[t] > 0
    /\ Call(t)
    /\ given' = [given EXCEPT ![t] = @ - 1]
    /\ UNCHANGED <<scanVars, cursorVars, returned>>

FairNext ==
    \E t \in Threads :
        \/ CallWithinBudget(t)
        \/ LockRead(t) /\ UNCHANGED <<scanVars, cursorVars, fnVars>>
        \/ ReadCheck(t) /\ UNCHANGED <<scanVars, cursorVars, fnVars>>
        \/ LockWrite(t) /\ UNCHANGED <<scanVars, cursorVars, fnVars>>
        \/ WriteCheck(t) /\ UNCHANGED <<scanVars, cursorVars, fnVars>>
        \/ LockInput(t) /\ UNCHANGED <<scanVars, cursorVars, fnVars>>
        \/ Seek(t) /\ UNCHANGED <<scanVars, cursorVars, fnVars>>
        \/ ReadExact(t) /\ UNCHANGED <<scanVars, cursorVars, fnVars>>
        \/ ParseInsert(t) /\ UNCHANGED <<scanVars, cursorVars, fnVars>>

\* The next step of thread t inside load, whichever it is.
Running(t) ==
    /\ \/ LockRead(t) \/ ReadCheck(t) \/ LockWrite(t) \/ WriteCheck(t)
       \/ LockInput(t) \/ Seek(t) \/ ReadExact(t) \/ ParseInsert(t)
    /\ UNCHANGED <<scanVars, cursorVars, fnVars>>

SpecPagerFair ==
    FairInit /\ [][FairNext]_vars /\ \A t \in Threads : WF_vars(Running(t))

\* The shared guard is dropped before the exclusive lock is asked for, the
\* file mutex is held only by the holder of the exclusive lock, and its
\* holder waits for no lock.
LockOrder ==
    \A t \in Threads :
        LET l == pagesLock[pagerOf[t].pages]
        IN  /\ pc[t] = "write_wait" => t \notin l.readers /\ l.writer # t
            /\ pc[t] \in {"write_held", "input_wait", "seek", "read"}
               => l.writer = t /\ l.readers = {}
            /\ input.owner = t <=> pc[t] \in {"seek", "read"}
            /\ pc[t] = "input_wait" => input.owner = NoThread

\* The next step of a thread inside load is not waiting for a lock held.
CanStep(t) ==
    LET l == pagesLock[pagerOf[t].pages]
    IN  /\ pc[t] # "idle"
        /\ pc[t] = "read_wait" => l.writer = NoThread
        /\ pc[t] = "write_wait" => l.writer = NoThread /\ l.readers = {}
        /\ pc[t] = "input_wait" => input.owner = NoThread

SomeoneCanStep ==
    (\E t \in Threads : pc[t] # "idle") => \E t \in Threads : CanStep(t)

\* C32: threads calling read_page / read_overflow on one pager never block
\* each other for good: the locks are taken in the order shared (dropped),
\* exclusive, file mutex, in every state some thread inside load can take its
\* next step, and under fair scheduling every call returns.
C32_NoDeadlock ==
    /\ []LockOrder
    /\ []SomeoneCanStep
    /\ \A t \in Threads : [](pc[t] # "idle" => <>(pc[t] = "idle"))

\* One thread holds the exclusive lock and the file mutex, reading page 2,
\* while the other, which missed page 2 under the shared lock, waits for the
\* exclusive lock.
C32_Witness ==
    /\ pc["t1"] = "read"
    /\ arg["t1"].n = 2
    /\ input.owner = "t1"
    /\ pagesLock[pagerOf["t1"].pages].writer = "t1"
    /\ pc["t2"] = "write_wait"
    /\ arg["t2"].n = 2

====
